---- MODULE Spec2Model ----
\* A model of the signature / scope core of the shell:
\*   - Scope, the lock-guarded stack of ScopeFrames
\*     (crates/nu-cli/src/evaluate/scope.rs),
\*   - the per-item condition evaluation of `keep until` and `all?`
\*     (crates/nu-command/src/commands/keep/until.rs, all.rs),
\*   - the parser combinators and the signature item parsers
\*     (crates/nu-parser/src/parse/def/parse_lib.rs, param_flag_list.rs).
EXTENDS Integers, Sequences, FiniteSets, TLC

\* ------------------------------------------------------------------
\* Bounds of the model
\* ------------------------------------------------------------------
MaxDepth == 2
MaxEntries == 3
MaxItems == 3
MaxTokens == 3
MaxWords == 2
MaxArgs == 2
MaxDeductions == 3
MaxStartup == 2
MaxShared == 1
MaxSeq == 2
\* more iterations than any sequence between -MaxSeq and MaxSeq has numbers
MaxPrinted == 2 * MaxSeq + 2
\* more parameters than any text of MaxWords words declares
MaxParameters == 2 * MaxWords + 1

VarNames == {"x", "y"}
Values == {"V1", "V2"}
EnvNames == {"PATH"}
EnvValues == {"E1", "E2"}
\* command names in ascending (String::cmp) order
CommandOrder == <<"a", "b">>
CommandNames == {CommandOrder[j] : j \in 1..Len(CommandOrder)}
Commands == {"C1", "C2"}
AliasNames == {"l"}
Replacements == {<<"ls">>, <<"ls", "-l">>}

\* ------------------------------------------------------------------
\* Option<T>: None is the empty sequence, Some(v) the one-element one
\* ------------------------------------------------------------------
None == <<>>
Some(v) == <<v>>

\* ------------------------------------------------------------------
\* IndexMap<K, V>: insertion-ordered map, a sequence of <<key, value>>
\* pairs with pairwise distinct keys
\* ------------------------------------------------------------------
IndexMapNew == <<>>

Keys(m) == [j \in 1..Len(m) |-> m[j][1]]

KeySet(m) == {m[j][1] : j \in 1..Len(m)}

ContainsKey(m, k) == k \in KeySet(m)

IndexMapGet(m, k) ==
  IF \E j \in 1..Len(m) : m[j][1] = k
  THEN Some(m[CHOOSE j \in 1..Len(m) : m[j][1] = k][2])
  ELSE None

\* insert replaces the value of an existing key in place and appends a
\* new key at the end
IndexMapInsert(m, k, v) ==
  IF ContainsKey(m, k)
  THEN [j \in 1..Len(m) |-> IF m[j][1] = k THEN <<k, v>> ELSE m[j]]
  ELSE Append(m, <<k, v>>)

RECURSIVE IndexMapExtend(_, _)
IndexMapExtend(m, kvs) ==
  IF kvs = <<>> THEN m
  ELSE IndexMapExtend(IndexMapInsert(m, Head(kvs)[1], Head(kvs)[2]), Tail(kvs))

\* all IndexMaps over keys K and values V (the inputs of add_vars / add_env)
IndexMaps(K, V) ==
  {m \in UNION {[1..n -> K \X V] : n \in 0..Cardinality(K)} :
     \A j1, j2 \in 1..Len(m) : m[j1][1] = m[j2][1] => j1 = j2}

VarMaps == IndexMaps(VarNames, Values)
EnvMaps == IndexMaps(EnvNames, EnvValues)

\* ------------------------------------------------------------------
\* Tokens and parsers of the signature grammar
\* ------------------------------------------------------------------

\* the tokens left by lex and the two splitting passes, by their text:
\* Baseline runs, then the Comment and EOL tokens
BaselineTokens == {"x", "int", ":", "?", ",", "--flag", "(-f)", "...rest"}
TokenKinds == BaselineTokens \cup {"#c", "EOL"}

TokenSeqs == UNION {[1..n -> TokenKinds] : n \in 0..MaxTokens}

Unit == "()"

\* ParseResult { value, i, err }
ParseResult(value, i, err) == [value |-> value, i |-> i, err |-> err]

\* ParseError::mismatch(expected, token) and ParseError::unexpected_eof(expected, span)
Mismatch(expected, at) == [kind |-> "mismatch", expected |-> expected, at |-> at]
UnexpectedEof(expected, span) == [kind |-> "unexpected_eof", expected |-> expected, at |-> span]

\* parsers are described by terms: a primitive, or a combinator over terms
Prim(name) == [k |-> "Prim", a |-> name, b |-> <<>>, c |-> <<>>]
Expect(p) == [k |-> "Expect", a |-> p, b |-> <<>>, c |-> <<>>]
Maybe(p) == [k |-> "Maybe", a |-> p, b |-> <<>>, c |-> <<>>]
AndThen(p, q) == [k |-> "AndThen", a |-> p, b |-> q, c |-> <<>>]
And3(p, q, r) == [k |-> "And3", a |-> p, b |-> q, c |-> r]
IfSuccessThen(p, q) == [k |-> "IfSuccessThen", a |-> p, b |-> q, c |-> <<>>]
Discard(p) == [k |-> "Discard", a |-> p, b |-> <<>>, c |-> <<>>]
OptionalType == [k |-> "OptionalType", a |-> <<>>, b |-> <<>>, c |-> <<>>]
ItemEnd == [k |-> "ItemEnd", a |-> <<>>, b |-> <<>>, c |-> <<>>]
Parameter == [k |-> "Parameter", a |-> <<>>, b |-> <<>>, c |-> <<>>]
Flag == [k |-> "Flag", a |-> <<>>, b |-> <<>>, c |-> <<>>]
Rest == [k |-> "Rest", a |-> <<>>, b |-> <<>>, c |-> <<>>]

Primitives ==
  {"ParameterName", "OptionalModifier", "DoublePoint", "Shape", "Comma",
   "Comment", "EOL", "FlagName", "FlagShortName", "RestName"}

\* the tokens a primitive accepts
PrimAccepts(name) ==
  CASE name = "ParameterName" -> {"x", "y", "int", "path"}
    [] name = "OptionalModifier" -> {"?"}
    [] name = "DoublePoint" -> {":"}
    [] name = "Shape" -> {"int", "path"}
    [] name = "Comma" -> {","}
    [] name = "Comment" -> {"#c"}
    [] name = "EOL" -> {"EOL"}
    [] name = "FlagName" -> {"--flag", "--output"}
    [] name = "FlagShortName" -> {"(-f)", "(-o)"}
    [] name = "RestName" -> {"...rest"}

\* the value a primitive makes of an accepted token: the shape a type
\* name stands for, the long name without its dashes, the character of a
\* shorthand group, else the text
PrimValue(name, tok) ==
  CASE name = "Shape" -> (IF tok = "path" THEN "FilePath" ELSE "Int")
    [] name = "FlagName" -> (IF tok = "--output" THEN "output" ELSE "flag")
    [] name = "FlagShortName" -> (IF tok = "(-o)" THEN "o" ELSE "f")
    [] name \in {"ParameterName", "RestName", "Comment"} -> tok
    [] OTHER -> Unit

PrimDefault(name) ==
  CASE name = "Shape" -> "Any"
    [] name \in {"ParameterName", "FlagName", "FlagShortName", "RestName", "Comment"} -> ""
    [] OTHER -> Unit

\* a primitive consumes one accepted token; else it returns its default
\* value, the index it was called with and a mismatch
PrimParse(name, toks, i) ==
  IF i < Len(toks) /\ toks[i + 1] \in PrimAccepts(name)
  THEN ParseResult(PrimValue(name, toks[i + 1]), i + 1, None)
  ELSE ParseResult(PrimDefault(name), i, Some(Mismatch(name, i)))

\* Option::or
Or(e1, e2) == IF e1 # None THEN e1 ELSE e2

ParameterError == [pos_type |-> <<"Optional", "Internal Error", "Any">>, desc |-> Some("error")]
FlagError == [long_name |-> "Internal Error", named_type |-> <<"Switch", None>>, desc |-> Some("error")]

RECURSIVE DefaultErrorValue(_)
DefaultErrorValue(p) ==
  CASE p.k = "Prim" -> PrimDefault(p.a)
    [] p.k = "Expect" -> DefaultErrorValue(p.a)
    [] p.k = "Maybe" -> Some(DefaultErrorValue(p.a))
    [] p.k = "AndThen" -> <<DefaultErrorValue(p.a), DefaultErrorValue(p.b)>>
    [] p.k = "And3" -> <<DefaultErrorValue(p.a), DefaultErrorValue(p.b), DefaultErrorValue(p.c)>>
    [] p.k = "IfSuccessThen" -> Some(<<DefaultErrorValue(p.a), DefaultErrorValue(p.b)>>)
    [] p.k = "Discard" -> Unit
    [] p.k = "OptionalType" -> Some("Any")
    [] p.k = "ItemEnd" -> None
    [] p.k = "Parameter" -> ParameterError
    [] p.k = "Flag" -> FlagError
    [] p.k = "Rest" -> <<"Any", "">>

\* display_name(): the name of a primitive, else the kind of the parser
DisplayName(p) == IF p.k = "Prim" THEN p.a ELSE p.k

\* tokens.last().span, Span::unknown() (0) for an empty slice
LastSpan(toks) == Len(toks)

RECURSIVE Parse(_, _, _)

\* variant: on exhausted input the index of the last token is returned
ExpectParseLastIndex(p, toks, i) ==
  IF i < Len(toks) THEN Parse(p, toks, i)
  ELSE ParseResult(DefaultErrorValue(p), Len(toks) - 1, Some(UnexpectedEof(DisplayName(p), LastSpan(toks))))

ExpectParse(p, toks, i) ==
  IF i < Len(toks) THEN Parse(p, toks, i)
  ELSE ParseResult(DefaultErrorValue(p), i, Some(UnexpectedEof(DisplayName(p), LastSpan(toks))))

\* variant: the index Value reached is kept when Value fails
MaybeKeepsIndex(p, toks, i) ==
  LET r == Parse(p, toks, i) IN
    IF r.err # None THEN ParseResult(None, r.i, None)
    ELSE ParseResult(Some(r.value), r.i, r.err)

MaybeParse(p, toks, i) ==
  LET r == Parse(p, toks, i) IN
    IF r.err # None THEN ParseResult(None, i, None)
    ELSE ParseResult(Some(r.value), r.i, r.err)

\* variant: Second is not run when First has failed
AndThenStopsAtError(p, q, toks, i) ==
  LET first == Parse(p, toks, i) IN
    IF first.err # None
    THEN ParseResult(<<first.value, DefaultErrorValue(q)>>, first.i, first.err)
    ELSE LET second == Parse(q, toks, first.i) IN
           ParseResult(<<first.value, second.value>>, second.i, second.err)

AndThenParse(p, q, toks, i) ==
  LET first == Parse(p, toks, i)
      second == Parse(q, toks, first.i)
  IN ParseResult(<<first.value, second.value>>, second.i, Or(first.err, second.err))

\* three parsers in sequence, as AndThen runs two
And3Parse(p, q, r, toks, i) ==
  LET first == Parse(p, toks, i)
      second == Parse(q, toks, first.i)
      third == Parse(r, toks, second.i)
  IN ParseResult(<<first.value, second.value, third.value>>, third.i,
                 Or(first.err, Or(second.err, third.err)))

\* variant: Then is optional after Try, its failure is not reported
IfSuccessThenOptional(p, q, toks, i) ==
  LET try == MaybeParse(p, toks, i) IN
    IF try.value # None
    THEN LET then == ExpectParse(q, toks, try.i) IN
           ParseResult(Some(<<try.value[1], then.value>>), then.i, try.err)
    ELSE ParseResult(None, i, None)

\* variant: the index is rewound when Then fails
IfSuccessThenRewinds(p, q, toks, i) ==
  LET try == MaybeParse(p, toks, i) IN
    IF try.value # None
    THEN LET then == ExpectParse(q, toks, try.i) IN
           ParseResult(Some(<<try.value[1], then.value>>),
                       IF then.err # None THEN i ELSE then.i, Or(try.err, then.err))
    ELSE ParseResult(None, i, None)

IfSuccessThenParse(p, q, toks, i) ==
  LET try == MaybeParse(p, toks, i) IN
    IF try.value # None
    THEN LET then == ExpectParse(q, toks, try.i) IN
           ParseResult(Some(<<try.value[1], then.value>>), then.i, Or(try.err, then.err))
    ELSE ParseResult(None, i, None)

DiscardParse(p, toks, i) ==
  LET r == Parse(p, toks, i) IN ParseResult(Unit, r.i, r.err)

OptionalTypeParse(toks, i) ==
  LET r == IfSuccessThenParse(Prim("DoublePoint"), Prim("Shape"), toks, i) IN
    IF r.value # None THEN ParseResult(Some(r.value[1][2]), r.i, r.err)
    ELSE ParseResult(None, i, None)

\* And2<Maybe<Comma>, And2<Maybe<Comment>, Maybe<EOL>>>, the comment kept
ItemEndParse(toks, i) ==
  LET r == AndThenParse(Maybe(Prim("Comma")),
                        AndThen(Maybe(Prim("Comment")), Maybe(Prim("EOL"))), toks, i)
  IN ParseResult(r.value[2][1], r.i, r.err)

Max(S) == CHOOSE d \in S : \A e \in S : e <= d

UnwrapOr(opt, default) == IF opt # None THEN opt[1] ELSE default

\* variant: the optional modifier is not looked at
ParameterFromMandatory(v) ==
  [pos_type |-> <<"Mandatory", v[1][1], UnwrapOr(v[1][3], "Any")>>,
   desc |-> v[2]]

\* From<(Spanned<(String, Option<()>, Option<SyntaxShape>)>, Option<String>)> for Parameter
ParameterFrom(v) ==
  [pos_type |-> <<IF v[1][2] # None THEN "Optional" ELSE "Mandatory",
                  v[1][1], UnwrapOr(v[1][3], "Any")>>,
   desc |-> v[2]]

\* From<(Spanned<(String, Option<char>, Option<SyntaxShape>)>, Option<String>)> for Flag
FlagFrom(v) ==
  [long_name |-> v[1][1],
   named_type |-> IF v[1][3] # None THEN <<"Optional", v[1][2], v[1][3][1]>>
                  ELSE <<"Switch", v[1][2]>>,
   desc |-> v[2]]

ParameterParse(toks, i) ==
  LET r == AndThenParse(And3(Prim("ParameterName"), Maybe(Prim("OptionalModifier")), OptionalType),
                        ItemEnd, toks, i)
  IN ParseResult(ParameterFrom(r.value), r.i, r.err)

FlagParse(toks, i) ==
  LET r == AndThenParse(And3(Prim("FlagName"), Maybe(Prim("FlagShortName")), OptionalType),
                        ItemEnd, toks, i)
  IN ParseResult(FlagFrom(r.value), r.i, r.err)

RestParse(toks, i) ==
  LET r == AndThenParse(Prim("RestName"), AndThen(OptionalType, ItemEnd), toks, i)
  IN ParseResult(<<UnwrapOr(r.value[2][1], "Any"), UnwrapOr(r.value[2][2], "")>>, r.i, r.err)

Parse(p, toks, i) ==
  CASE p.k = "Prim" -> PrimParse(p.a, toks, i)
    [] p.k = "Expect" -> ExpectParse(p.a, toks, i)
    [] p.k = "Maybe" -> MaybeParse(p.a, toks, i)
    [] p.k = "AndThen" -> AndThenParse(p.a, p.b, toks, i)
    [] p.k = "And3" -> And3Parse(p.a, p.b, p.c, toks, i)
    [] p.k = "IfSuccessThen" -> IfSuccessThenParse(p.a, p.b, toks, i)
    [] p.k = "Discard" -> DiscardParse(p.a, toks, i)
    [] p.k = "OptionalType" -> OptionalTypeParse(toks, i)
    [] p.k = "ItemEnd" -> ItemEndParse(toks, i)
    [] p.k = "Parameter" -> ParameterParse(toks, i)
    [] p.k = "Flag" -> FlagParse(toks, i)
    [] p.k = "Rest" -> RestParse(toks, i)

\* ------------------------------------------------------------------
\* Tokens by their characters, and the two splitting passes
\* ------------------------------------------------------------------

\* Token { contents }: Baseline(String) keeps its characters
Baseline(base) == [contents |-> "Baseline", base |-> base]
CommentToken == [contents |-> "Comment", base |-> <<>>]
PipeToken == [contents |-> "Pipe", base |-> <<>>]
EOLToken == [contents |-> "EOL", base |-> <<>>]

\* a String of the given characters
RECURSIVE Text(_)
Text(chars) == IF chars = <<>> THEN "" ELSE chars[1] \o Text(Tail(chars))

\* the token as the parsers see it
TokenText(token) ==
  CASE token.contents = "Baseline" -> Text(token.base)
    [] token.contents = "Comment" -> "#c"
    [] token.contents = "Pipe" -> "|"
    [] token.contents = "EOL" -> "EOL"

TokenTexts(toks) == [k \in 1..Len(toks) |-> TokenText(toks[k])]

\* the closure make_new_token: the run that was collected, if it is not
\* empty, then the terminator character as a token of its own
make_new_token(token_new, terminator_char) ==
  (IF token_new # <<>> THEN <<Baseline(token_new)>> ELSE <<>>)
    \o (IF terminator_char # None THEN <<Baseline(<<terminator_char[1]>>)>> ELSE <<>>)

\* the loop over base.chars() of lex_split_baseline_tokens_on
RECURSIVE SplitChars(_, _, _)
SplitChars(base, current, terminals) ==
  IF base = <<>> THEN make_new_token(current, None)
  ELSE IF Head(base) \in terminals
       THEN make_new_token(current, Some(Head(base)))
              \o SplitChars(Tail(base), <<>>, terminals)
       ELSE SplitChars(Tail(base), Append(current, Head(base)), terminals)

RECURSIVE lex_split_baseline_tokens_on(_, _)
lex_split_baseline_tokens_on(toks, terminals) ==
  IF toks = <<>> THEN <<>>
  ELSE (IF Head(toks).contents = "Baseline"
        THEN SplitChars(Head(toks).base, <<>>, terminals)
        ELSE <<Head(toks)>>)
         \o lex_split_baseline_tokens_on(Tail(toks), terminals)

\* str::find: the offset of the first occurrence of the character
Find(base, c) ==
  IF \E k \in 1..Len(base) : base[k] = c
  THEN Some((CHOOSE k \in 1..Len(base) :
               base[k] = c /\ \A j \in 1..(k - 1) : base[j] # c) - 1)
  ELSE None

\* variant: the `(` is left with the long name
SplitAfterParen(token) ==
  IF /\ token.contents = "Baseline"
     /\ Find(token.base, "(") # None
     /\ Find(token.base, "(")[1] # 0
  THEN LET paren_start == Find(token.base, "(")[1] IN
         <<Baseline(SubSeq(token.base, 1, paren_start + 1)),
           Baseline(SubSeq(token.base, paren_start + 2, Len(token.base)))>>
  ELSE <<token>>

\* the body of the loop of lex_split_shortflag_from_longflag
SplitShortflag(token) ==
  IF /\ token.contents = "Baseline"
     /\ Find(token.base, "(") # None
     /\ Find(token.base, "(")[1] # 0
  THEN LET paren_start == Find(token.base, "(")[1] IN
         <<Baseline(SubSeq(token.base, 1, paren_start)),
           Baseline(SubSeq(token.base, paren_start + 1, Len(token.base)))>>
  ELSE <<token>>

RECURSIVE lex_split_shortflag_from_longflag(_)
lex_split_shortflag_from_longflag(toks) ==
  IF toks = <<>> THEN <<>>
  ELSE SplitShortflag(Head(toks)) \o lex_split_shortflag_from_longflag(Tail(toks))

starts_with(base, prefix) ==
  Len(base) >= Len(prefix) /\ SubSeq(base, 1, Len(prefix)) = prefix

is_rest(token) ==
  token.contents = "Baseline" /\ starts_with(token.base, <<".", ".", ".">>)

is_flag(token) ==
  token.contents = "Baseline" /\ starts_with(token.base, <<"-">>)

RECURSIVE InsertFlags(_, _)
InsertFlags(named, flags) ==
  IF flags = <<>> THEN named
  ELSE InsertFlags(IndexMapInsert(named, Head(flags).long_name,
                                  <<Head(flags).named_type, UnwrapOr(Head(flags).desc, "")>>),
                   Tail(flags))

to_signature(name, params, flags, rest) ==
  [name |-> name,
   positional |-> [k \in 1..Len(params) |->
                     <<params[k].pos_type, UnwrapOr(params[k].desc, "")>>],
   rest_positional |-> rest,
   named |-> InsertFlags(IndexMapNew, flags)]

\* ------------------------------------------------------------------
\* ScopeFrame and Scope
\* ------------------------------------------------------------------
ScopeFrameNew ==
  [vars |-> IndexMapNew, env |-> IndexMapNew,
   commands |-> IndexMapNew, aliases |-> IndexMapNew]

VARIABLES
  frames,   \* Scope.frames: Vec<ScopeFrame>, the global frame first
  saved,    \* history: get_var of every name as it was at each open enter_scope
  stages,   \* the pipeline stages that evaluate a condition per input item
  lock,     \* the parking_lot::Mutex around frames: 0 when free, else the holder
  threads,  \* the threads that share the Scope, each inside at most one call
  tokens,   \* the token slice handed to a parser
  idx,      \* the index the parser is called with
  res,      \* the parser that was run and the ParseResult it returned
  sig,      \* the locals of a call of parse_signature
  alias,    \* the arguments and the outcome of a call of alias
  running,  \* the locals of a command that runs on its input stream
  seq       \* the locals of a call of run_seq

vars == <<frames, saved, stages, lock, threads, tokens, idx, res, sig, alias, running, seq>>

\* no parser has been run
NoResult == [parser |-> "none"]

NoParse ==
  /\ tokens = <<>>
  /\ idx = 0
  /\ res = NoResult

\* parse_signature has not been called
NoSignature == sig = [pc |-> "none"]

\* alias has not been called
NoAlias == alias = [pc |-> "none"]

\* no command runs
NoCommand == running = [pc |-> "none"]

\* run_seq has not been called
NoSeq == seq = [pc |-> "none"]

Last(s) == s[Len(s)]
Front(s) == SubSeq(s, 1, Len(s) - 1)

\* Vec::pop: removes the last element, does nothing on an empty Vec
Pop(s) == IF s = <<>> THEN s ELSE Front(s)

\* variant: scans with iter(), the global frame first
RECURSIVE FwdFind(_, _, _)
FwdFind(fs, field, name) ==
  IF fs = <<>> THEN None
  ELSE IF ContainsKey(Head(fs)[field], name)
       THEN IndexMapGet(Head(fs)[field], name)
       ELSE FwdFind(Tail(fs), field, name)

\* iter().rev(): first match from the most recently pushed frame down
RECURSIVE RevFind(_, _, _)
RevFind(fs, field, name) ==
  IF fs = <<>> THEN None
  ELSE IF ContainsKey(Last(fs)[field], name)
       THEN IndexMapGet(Last(fs)[field], name)
       ELSE RevFind(Front(fs), field, name)

get_var(fs, name) == RevFind(fs, "vars", name)

get_command(fs, name) == RevFind(fs, "commands", name)

get_alias(fs, name) == RevFind(fs, "aliases", name)

has_command(fs, name) ==
  \E d \in 1..Len(fs) : ContainsKey(fs[d].commands, name)

expect_command(fs, name) ==
  IF get_command(fs, name) # None
  THEN [ok |-> TRUE, value |-> get_command(fs, name)[1]]
  ELSE [ok |-> FALSE, value |-> <<"Missing command", name>>]

\* for frame in frames.iter().rev() { for v in frame.<field> { output.insert(k, v) } }
RECURSIVE MergeRev(_, _, _)
MergeRev(fs, field, output) ==
  IF fs = <<>> THEN output
  ELSE MergeRev(Front(fs), field, IndexMapExtend(output, Last(fs)[field]))

get_vars(fs) == MergeRev(fs, "vars", IndexMapNew)

get_env_vars(fs) == MergeRev(fs, "env", IndexMapNew)

\* Vec::dedup: removes consecutive repeated elements
RECURSIVE Dedup(_)
Dedup(s) ==
  IF Len(s) <= 1 THEN s
  ELSE IF s[1] = s[2] THEN Dedup(Tail(s))
       ELSE <<s[1]>> \o Dedup(Tail(s))

Rank(name) == CHOOSE j \in 1..Len(CommandOrder) : CommandOrder[j] = name

\* Vec::sort (stable), as an insertion sort on the order of the names
RECURSIVE SortInsert(_, _)
SortInsert(sorted, name) ==
  IF sorted = <<>> THEN <<name>>
  ELSE IF Rank(name) < Rank(Head(sorted)) THEN <<name>> \o sorted
       ELSE <<Head(sorted)>> \o SortInsert(Tail(sorted), name)

RECURSIVE Sort(_)
Sort(s) == IF s = <<>> THEN s ELSE SortInsert(Sort(Front(s)), Last(s))

\* for frame in frames.iter() { names.append(frame.get_command_names()) }
RECURSIVE AllCommandNames(_)
AllCommandNames(fs) ==
  IF fs = <<>> THEN <<>>
  ELSE AllCommandNames(Front(fs)) \o Keys(Last(fs).commands)

get_command_names(fs) == Sort(Dedup(AllCommandNames(fs)))

RECURSIVE TotalEntries(_)
TotalEntries(fs) ==
  IF fs = <<>> THEN 0
  ELSE Len(Last(fs).vars) + Len(Last(fs).env) + Len(Last(fs).commands)
       + Len(Last(fs).aliases) + TotalEntries(Front(fs))

\* variant: first_mut() in place of last_mut()
UpdateBottom(fs, field, newmap) ==
  IF fs = <<>> THEN fs
  ELSE [fs EXCEPT ![1] = [@ EXCEPT ![field] = newmap]]

\* if let Some(frame) = frames.last_mut() { frame.<field>.<update> }
UpdateTop(fs, field, newmap) ==
  IF fs = <<>> THEN fs
  ELSE [fs EXCEPT ![Len(fs)] = [@ EXCEPT ![field] = newmap]]

Snapshot(fs) == [n \in VarNames |-> get_var(fs, n)]

ScopeNew == <<ScopeFrameNew>>

Init ==
  /\ frames = ScopeNew
  /\ saved = <<>>
  /\ NoCommand
  /\ NoSeq
  /\ stages = <<>>
  /\ lock = 0
  /\ threads = <<>>
  /\ NoParse
  /\ NoSignature
  /\ NoAlias

enter_scope(fs) == Append(fs, ScopeFrameNew)

exit_scope(fs) == Pop(fs)

add_var(fs, name, value) ==
  IF fs = <<>> THEN fs
  ELSE UpdateTop(fs, "vars", IndexMapInsert(Last(fs).vars, name, value))

add_vars(fs, m) ==
  IF fs = <<>> THEN fs
  ELSE UpdateTop(fs, "vars", IndexMapExtend(Last(fs).vars, m))

\* variant: inserts into frame.vars
add_env_var_into_vars(fs, name, value) ==
  IF fs = <<>> THEN fs
  ELSE UpdateTop(fs, "vars", IndexMapInsert(Last(fs).vars, name, value))

add_env_var(fs, name, value) ==
  IF fs = <<>> THEN fs
  ELSE UpdateTop(fs, "env", IndexMapInsert(Last(fs).env, name, value))

add_env(fs, m) ==
  IF fs = <<>> THEN fs
  ELSE UpdateTop(fs, "env", IndexMapExtend(Last(fs).env, m))

add_command(fs, name, command) ==
  IF fs = <<>> THEN fs
  ELSE UpdateTop(fs, "commands", IndexMapInsert(Last(fs).commands, name, command))

add_alias(fs, name, replacement) ==
  IF fs = <<>> THEN fs
  ELSE UpdateTop(fs, "aliases", IndexMapInsert(Last(fs).aliases, name, replacement))

Bounded(fs) == TotalEntries(fs) <= MaxEntries

\* ------------------------------------------------------------------
\* Spec: any sequence of calls on one Scope
\* ------------------------------------------------------------------
EnterScope ==
  /\ Len(frames) < MaxDepth
  /\ frames' = enter_scope(frames)
  /\ saved' = Append(saved, Snapshot(frames))
  /\ UNCHANGED <<running, seq, sig, alias, stages, lock, threads, tokens, idx, res>>

ExitScope ==
  /\ frames' = exit_scope(frames)
  /\ saved' = Pop(saved)
  /\ UNCHANGED <<running, seq, sig, alias, stages, lock, threads, tokens, idx, res>>

AddVar ==
  \E n \in VarNames, v \in Values :
    /\ Bounded(add_var(frames, n, v))
    /\ frames' = add_var(frames, n, v)
    /\ UNCHANGED <<running, seq, sig, alias, saved, stages, lock, threads, tokens, idx, res>>

AddVars ==
  \E m \in VarMaps :
    /\ Bounded(add_vars(frames, m))
    /\ frames' = add_vars(frames, m)
    /\ UNCHANGED <<running, seq, sig, alias, saved, stages, lock, threads, tokens, idx, res>>

AddEnvVar ==
  \E n \in EnvNames, v \in EnvValues :
    /\ Bounded(add_env_var(frames, n, v))
    /\ frames' = add_env_var(frames, n, v)
    /\ UNCHANGED <<running, seq, sig, alias, saved, stages, lock, threads, tokens, idx, res>>

AddEnv ==
  \E m \in EnvMaps :
    /\ Bounded(add_env(frames, m))
    /\ frames' = add_env(frames, m)
    /\ UNCHANGED <<running, seq, sig, alias, saved, stages, lock, threads, tokens, idx, res>>

AddCommand ==
  \E n \in CommandNames, c \in Commands :
    /\ Bounded(add_command(frames, n, c))
    /\ frames' = add_command(frames, n, c)
    /\ UNCHANGED <<running, seq, sig, alias, saved, stages, lock, threads, tokens, idx, res>>

AddAlias ==
  \E n \in AliasNames, r \in Replacements :
    /\ Bounded(add_alias(frames, n, r))
    /\ frames' = add_alias(frames, n, r)
    /\ UNCHANGED <<running, seq, sig, alias, saved, stages, lock, threads, tokens, idx, res>>

Next ==
  \/ EnterScope
  \/ ExitScope
  \/ AddVar
  \/ AddVars
  \/ AddEnvVar
  \/ AddEnv
  \/ AddCommand
  \/ AddAlias

Spec == Init /\ [][Next]_vars

\* ------------------------------------------------------------------
\* SpecItems: `keep until` and `all?` evaluate their condition once per
\* input item, each time in a scope of its own
\* ------------------------------------------------------------------

\* an input item, named by what the condition makes of it: true, false,
\* a value that is not a boolean, an evaluation error
Items == {"T", "F", "N", "E"}

ItemSeqs == UNION {[1..n -> Items] : n \in 0..MaxItems}

\* block.captured.entries
Captured == {<<>>, <<<<"x", "T">>>>, <<<<"y", "F">>>>}

\* the scopes a stage may be started in
StartScopes ==
  {ScopeNew,
   add_var(ScopeNew, "x", "F"),
   enter_scope(add_var(ScopeNew, "x", "T"))}

\* the variable the item is bound to: "$it" in all?, the block's first
\* positional parameter in keep until
ArgName(st) == IF st.cmd = "all" THEN "$it" ELSE "x"

BindsItem(st) == st.cmd = "all" \/ st.hasParam

\* evaluate_baseline_expr of the condition, which reads the item's variable
evaluate_baseline_expr(fs, name) ==
  LET v == get_var(fs, name) IN
    IF v = None THEN "Err"
    ELSE IF v[1] = "T" THEN "OkTrue"
    ELSE IF v[1] = "F" THEN "OkFalse"
    ELSE IF v[1] = "N" THEN "OkOther"
    ELSE "Err"

StageNew(cmd, hasParam, captured, input) ==
  [cmd |-> cmd, hasParam |-> hasParam, captured |-> captured,
   input0 |-> input, input |-> input, pc |-> "pull", item |-> "T", result |-> "OkTrue",
   acc |-> "OkTrue", out |-> <<>>, depth0 |-> 0]

InitItems ==
  /\ frames \in StartScopes
  /\ saved = <<>>
  /\ NoCommand
  /\ NoSeq
  /\ lock = 0
  /\ threads = <<>>
  /\ NoParse
  /\ NoSignature
  /\ NoAlias
  /\ \E cmd \in {"keep until", "all"}, hasParam \in BOOLEAN,
        captured \in Captured, input \in ItemSeqs :
       /\ (cmd = "all" => hasParam)
       /\ stages = <<StageNew(cmd, hasParam, captured, input)>>

\* the stream hands the next item to the closure
Pull(s) ==
  /\ stages[s].pc = "pull"
  /\ stages[s].input # <<>>
  /\ stages' = [stages EXCEPT ![s] =
                  [@ EXCEPT !.pc = "enter", !.item = Head(stages[s].input),
                            !.input = Tail(stages[s].input),
                            !.depth0 = Len(frames)]]
  /\ UNCHANGED <<running, seq, sig, alias, frames, saved, lock, threads, tokens, idx, res>>

EndOfInput(s) ==
  /\ stages[s].pc = "pull"
  /\ stages[s].input = <<>>
  /\ stages' = [stages EXCEPT ![s] = [@ EXCEPT !.pc = "done"]]
  /\ UNCHANGED <<running, seq, sig, alias, frames, saved, lock, threads, tokens, idx, res>>

ItemEnterScope(s) ==
  /\ stages[s].pc = "enter"
  /\ frames' = enter_scope(frames)
  /\ stages' = [stages EXCEPT ![s] = [@ EXCEPT !.pc = "capture"]]
  /\ UNCHANGED <<running, seq, sig, alias, saved, lock, threads, tokens, idx, res>>

ItemAddCaptured(s) ==
  /\ stages[s].pc = "capture"
  /\ frames' = add_vars(frames, stages[s].captured)
  /\ stages' = [stages EXCEPT ![s] = [@ EXCEPT !.pc = "bind"]]
  /\ UNCHANGED <<running, seq, sig, alias, saved, lock, threads, tokens, idx, res>>

ItemBind(s) ==
  /\ stages[s].pc = "bind"
  /\ frames' = IF BindsItem(stages[s])
               THEN add_var(frames, ArgName(stages[s]), stages[s].item)
               ELSE frames
  /\ stages' = [stages EXCEPT ![s] = [@ EXCEPT !.pc = "eval"]]
  /\ UNCHANGED <<running, seq, sig, alias, saved, lock, threads, tokens, idx, res>>

ItemEvaluate(s) ==
  /\ stages[s].pc = "eval"
  /\ stages' = [stages EXCEPT ![s] =
                  [@ EXCEPT !.pc = "exit",
                            !.result = evaluate_baseline_expr(frames, ArgName(stages[s]))]]
  /\ UNCHANGED <<running, seq, sig, alias, frames, saved, lock, threads, tokens, idx, res>>

\* variant: the error of the evaluation is returned before exit_scope
ExitUnlessErr(fs, result) == IF result = "Err" THEN fs ELSE exit_scope(fs)

\* ctx.scope.exit_scope() follows the evaluation whatever its result
ExitAfterEvaluate(fs, result) == exit_scope(fs)

ItemExitScope(s) ==
  /\ stages[s].pc = "exit"
  /\ frames' = ExitAfterEvaluate(frames, stages[s].result)
  /\ stages' = [stages EXCEPT ![s] = [@ EXCEPT !.pc = "decide"]]
  /\ UNCHANGED <<running, seq, sig, alias, saved, lock, threads, tokens, idx, res>>

\* variant: an error of the evaluation ends the output as well
KeepUntilDecideEndsOnErr(s) ==
  /\ stages[s].pc = "decide"
  /\ stages[s].cmd = "keep until"
  /\ stages' = [stages EXCEPT ![s] =
                  IF stages[s].result \in {"OkTrue", "Err"}
                  THEN [@ EXCEPT !.pc = "done"]
                  ELSE [@ EXCEPT !.pc = "pull", !.out = Append(@, stages[s].item)]]
  /\ UNCHANGED <<running, seq, sig, alias, frames, saved, lock, threads, tokens, idx, res>>

\* take_while keeps the item unless the condition is Ok(true)
KeepUntilDecide(s) ==
  /\ stages[s].pc = "decide"
  /\ stages[s].cmd = "keep until"
  /\ stages' = [stages EXCEPT ![s] =
                  IF stages[s].result = "OkTrue"
                  THEN [@ EXCEPT !.pc = "done"]
                  ELSE [@ EXCEPT !.pc = "pull", !.out = Append(@, stages[s].item)]]
  /\ UNCHANGED <<running, seq, sig, alias, frames, saved, lock, threads, tokens, idx, res>>

\* the rest of the fold closure: acc?, as_bool()?, cond && b
AllAcc(acc, result) ==
  IF acc = "Err" THEN "Err"
  ELSE IF result = "OkTrue" THEN acc
  ELSE IF result = "OkFalse" THEN "OkFalse"
  ELSE "Err"

AllDecide(s) ==
  /\ stages[s].pc = "decide"
  /\ stages[s].cmd = "all"
  /\ stages' = [stages EXCEPT ![s] =
                  [@ EXCEPT !.pc = "pull", !.acc = AllAcc(stages[s].acc, stages[s].result)]]
  /\ UNCHANGED <<running, seq, sig, alias, frames, saved, lock, threads, tokens, idx, res>>

NextItems ==
  \/ \E s \in DOMAIN stages : Pull(s)
  \/ \E s \in DOMAIN stages : EndOfInput(s)
  \/ \E s \in DOMAIN stages : ItemEnterScope(s)
  \/ \E s \in DOMAIN stages : ItemAddCaptured(s)
  \/ \E s \in DOMAIN stages : ItemBind(s)
  \/ \E s \in DOMAIN stages : ItemEvaluate(s)
  \/ \E s \in DOMAIN stages : ItemExitScope(s)
  \/ \E s \in DOMAIN stages : KeepUntilDecide(s)
  \/ \E s \in DOMAIN stages : AllDecide(s)

SpecItems == InitItems /\ [][NextItems]_vars

\* ------------------------------------------------------------------
\* SpecStages: two stages of the same command that share one Scope and
\* run on two threads; each call of the Scope is one step, as the
\* mutex makes it
\* ------------------------------------------------------------------

\* the inputs of a stage: at most MaxShared items that are true or false
SharedInputs == UNION {[1..n -> {"T", "F"}] : n \in 0..MaxShared}

InitStages ==
  /\ frames = ScopeNew
  /\ saved = <<>>
  /\ NoCommand
  /\ NoSeq
  /\ lock = 0
  /\ threads = <<>>
  /\ NoParse
  /\ NoSignature
  /\ NoAlias
  /\ \E cmd \in {"keep until", "all"}, input1 \in SharedInputs, input2 \in SharedInputs :
       stages = <<StageNew(cmd, TRUE, <<>>, input1), StageNew(cmd, TRUE, <<>>, input2)>>

SpecStages == InitStages /\ [][NextItems]_vars

\* ------------------------------------------------------------------
\* SpecThreads: threads share one Scope; every call locks frames, runs
\* its loop or its update step by step, and unlocks when it returns
\* ------------------------------------------------------------------
Threads == {1, 2}

\* the calls a thread may make
Calls ==
  {[op |-> "get_var", name |-> "x"],
   [op |-> "add_var", name |-> "x", value |-> "V1"],
   [op |-> "add_var", name |-> "x", value |-> "V2"],
   [op |-> "add_vars", m |-> <<<<"x", "V2">>, <<"y", "V1">>>>],
   [op |-> "add_command", name |-> "a", value |-> "C1"],
   [op |-> "get_command_names"],
   [op |-> "enter_scope"],
   [op |-> "exit_scope"]}

\* what the call does to frames when nothing runs between its steps
Effect(call, fs) ==
  CASE call.op = "add_var" -> add_var(fs, call.name, call.value)
    [] call.op = "add_vars" -> add_vars(fs, call.m)
    [] call.op = "add_command" -> add_command(fs, call.name, call.value)
    [] call.op = "enter_scope" -> enter_scope(fs)
    [] call.op = "exit_scope" -> exit_scope(fs)
    [] OTHER -> fs

\* what the call returns when nothing runs between its steps
Return(call, fs) ==
  CASE call.op = "get_var" -> get_var(fs, call.name)
    [] call.op = "get_command_names" -> get_command_names(fs)
    [] OTHER -> None

ThreadIdle == [pc |-> "idle"]

ThreadStart == {ScopeNew, add_command(ScopeNew, "b", "C1")}

InitThreads ==
  /\ frames \in ThreadStart
  /\ saved = <<>>
  /\ NoCommand
  /\ NoSeq
  /\ stages = <<>>
  /\ lock = 0
  /\ threads = [t \in Threads |-> ThreadIdle]
  /\ NoParse
  /\ NoSignature
  /\ NoAlias

\* variant: lock() returns without waiting for the holder
LockIgnored(l) == TRUE

\* Mutex::lock() returns only when no thread holds the mutex
LockFree(l) == l = 0

\* self.frames.lock(): the call starts with the guard taken
Lock(t) ==
  /\ threads[t].pc = "idle"
  /\ LockFree(lock)
  /\ \E call \in Calls :
       /\ call.op = "enter_scope" => Len(frames) < MaxDepth
       /\ Bounded(Effect(call, frames))
       /\ threads' = [threads EXCEPT ![t] =
            [pc |-> "run", call |-> call, pre |-> frames, ret |-> None,
             cursor |-> IF call.op = "get_var" THEN Len(frames) ELSE 1,
             names |-> <<>>]]
  /\ lock' = t
  /\ UNCHANGED <<running, seq, sig, alias, frames, saved, stages, tokens, idx, res>>

\* one iteration of `for frame in frames.iter().rev()` of get_var
GetVarStep(t) ==
  LET th == threads[t] IN
  /\ th.pc = "run"
  /\ th.call.op = "get_var"
  /\ threads' = [threads EXCEPT ![t] =
       IF th.cursor = 0 THEN [th EXCEPT !.pc = "unlock", !.ret = None]
       ELSE IF th.cursor <= Len(frames) /\ ContainsKey(frames[th.cursor].vars, th.call.name)
       THEN [th EXCEPT !.pc = "unlock",
                       !.ret = IndexMapGet(frames[th.cursor].vars, th.call.name)]
       ELSE [th EXCEPT !.cursor = th.cursor - 1]]
  /\ UNCHANGED <<running, seq, sig, alias, frames, saved, stages, lock, tokens, idx, res>>

\* one iteration of `for frame in frames.iter()` of get_command_names,
\* and after the last one names.dedup(); names.sort()
GetCommandNamesStep(t) ==
  LET th == threads[t] IN
  /\ th.pc = "run"
  /\ th.call.op = "get_command_names"
  /\ threads' = [threads EXCEPT ![t] =
       IF th.cursor > Len(frames)
       THEN [th EXCEPT !.pc = "unlock", !.ret = Sort(Dedup(th.names))]
       ELSE [th EXCEPT !.cursor = th.cursor + 1,
                       !.names = th.names \o Keys(frames[th.cursor].commands)]]
  /\ UNCHANGED <<running, seq, sig, alias, frames, saved, stages, lock, tokens, idx, res>>

\* one insert of frame.vars.extend(vars)
AddVarsStep(t) ==
  LET th == threads[t] IN
  /\ th.pc = "run"
  /\ th.call.op = "add_vars"
  /\ IF th.cursor > Len(th.call.m)
     THEN /\ threads' = [threads EXCEPT ![t] = [th EXCEPT !.pc = "unlock"]]
          /\ UNCHANGED <<running, seq, sig, alias, frames>>
     ELSE /\ threads' = [threads EXCEPT ![t] = [th EXCEPT !.cursor = th.cursor + 1]]
          /\ frames' = add_var(frames, th.call.m[th.cursor][1], th.call.m[th.cursor][2])
  /\ UNCHANGED <<running, seq, sig, alias, saved, stages, lock, tokens, idx, res>>

\* add_var, add_command, enter_scope, exit_scope: one update of frames
UpdateStep(t) ==
  LET th == threads[t] IN
  /\ th.pc = "run"
  /\ th.call.op \in {"add_var", "add_command", "enter_scope", "exit_scope"}
  /\ frames' = Effect(th.call, frames)
  /\ threads' = [threads EXCEPT ![t] = [th EXCEPT !.pc = "unlock"]]
  /\ UNCHANGED <<running, seq, sig, alias, saved, stages, lock, tokens, idx, res>>

\* the guard is dropped when the call returns
Unlock(t) ==
  /\ threads[t].pc = "unlock"
  /\ threads' = [threads EXCEPT ![t] = ThreadIdle]
  /\ lock' = IF lock = t THEN 0 ELSE lock
  /\ UNCHANGED <<running, seq, sig, alias, frames, saved, stages, tokens, idx, res>>

NextThreads ==
  \/ \E t \in Threads : Lock(t)
  \/ \E t \in Threads : GetVarStep(t)
  \/ \E t \in Threads : GetCommandNamesStep(t)
  \/ \E t \in Threads : AddVarsStep(t)
  \/ \E t \in Threads : UpdateStep(t)
  \/ \E t \in Threads : Unlock(t)

SpecThreads == InitThreads /\ [][NextThreads]_vars

\* ------------------------------------------------------------------
\* SpecParse: one parser is run on a token slice at an index
\* ------------------------------------------------------------------
InitParse ==
  /\ frames = ScopeNew
  /\ saved = <<>>
  /\ NoCommand
  /\ NoSeq
  /\ stages = <<>>
  /\ lock = 0
  /\ threads = <<>>
  /\ tokens \in TokenSeqs
  /\ idx \in 0..Len(tokens)
  /\ res = NoResult
  /\ NoSignature
  /\ NoAlias

\* each action runs one parser at tokens[idx..] and keeps what it returned

ParseExpect ==
  \E a \in {"Shape", "Comma"} :
    /\ res = NoResult
    /\ res' = [parser |-> "Expect", arg |-> a, r |-> Parse(Expect(Prim(a)), tokens, idx)]
    /\ UNCHANGED <<running, seq, sig, alias, frames, saved, stages, lock, threads, tokens, idx>>

\* Maybe<OptionalModifier>, Maybe<FlagShortName>, and Maybe over a parser
\* that can fail after it has advanced
MaybeArgs == {Prim("OptionalModifier"), Prim("FlagShortName"), OptionalType}

ParseMaybe ==
  \E a \in MaybeArgs :
    /\ res = NoResult
    /\ res' = [parser |-> "Maybe", arg |-> a, r |-> Parse(Maybe(a), tokens, idx)]
    /\ UNCHANGED <<running, seq, sig, alias, frames, saved, stages, lock, threads, tokens, idx>>

AndThenArgs ==
  {<<Prim("ParameterName"), Prim("Shape")>>,
   <<Maybe(Prim("Comma")), Maybe(Prim("Comment"))>>,
   <<Prim("RestName"), OptionalType>>}

ParseAndThen ==
  \E a \in AndThenArgs :
    /\ res = NoResult
    /\ res' = [parser |-> "AndThen", arg |-> a, r |-> Parse(AndThen(a[1], a[2]), tokens, idx)]
    /\ UNCHANGED <<running, seq, sig, alias, frames, saved, stages, lock, threads, tokens, idx>>

IfSuccessThenArgs ==
  {<<Prim("DoublePoint"), Prim("Shape")>>,
   <<Prim("Comma"), Prim("ParameterName")>>}

ParseIfSuccessThen ==
  \E a \in IfSuccessThenArgs :
    /\ res = NoResult
    /\ res' = [parser |-> "IfSuccessThen", arg |-> a, r |-> Parse(IfSuccessThen(a[1], a[2]), tokens, idx)]
    /\ UNCHANGED <<running, seq, sig, alias, frames, saved, stages, lock, threads, tokens, idx>>

ParseDiscard ==
  \E a \in {"Comma", "EOL"} :
    /\ res = NoResult
    /\ res' = [parser |-> "Discard", arg |-> a, r |-> Parse(Discard(Prim(a)), tokens, idx)]
    /\ UNCHANGED <<running, seq, sig, alias, frames, saved, stages, lock, threads, tokens, idx>>

ParseOptionalType ==
  /\ res = NoResult
  /\ res' = [parser |-> "OptionalType", arg |-> "", r |-> Parse(OptionalType, tokens, idx)]
  /\ UNCHANGED <<running, seq, sig, alias, frames, saved, stages, lock, threads, tokens, idx>>

ParseItemEnd ==
  /\ res = NoResult
  /\ res' = [parser |-> "ItemEnd", arg |-> "", r |-> Parse(ItemEnd, tokens, idx)]
  /\ UNCHANGED <<running, seq, sig, alias, frames, saved, stages, lock, threads, tokens, idx>>

ParseParameter ==
  /\ res = NoResult
  /\ res' = [parser |-> "Parameter", arg |-> "", r |-> Parse(Parameter, tokens, idx)]
  /\ UNCHANGED <<running, seq, sig, alias, frames, saved, stages, lock, threads, tokens, idx>>

ParseFlag ==
  /\ res = NoResult
  /\ res' = [parser |-> "Flag", arg |-> "", r |-> Parse(Flag, tokens, idx)]
  /\ UNCHANGED <<running, seq, sig, alias, frames, saved, stages, lock, threads, tokens, idx>>

ParseRest ==
  /\ res = NoResult
  /\ res' = [parser |-> "Rest", arg |-> "", r |-> Parse(Rest, tokens, idx)]
  /\ UNCHANGED <<running, seq, sig, alias, frames, saved, stages, lock, threads, tokens, idx>>

NextParse ==
  \/ ParseExpect
  \/ ParseMaybe
  \/ ParseAndThen
  \/ ParseIfSuccessThen
  \/ ParseDiscard
  \/ ParseOptionalType
  \/ ParseItemEnd
  \/ ParseParameter
  \/ ParseFlag
  \/ ParseRest

SpecParse == InitParse /\ [][NextParse]_vars

\* ------------------------------------------------------------------
\* SpecSignature: parse_signature on a signature text
\* ------------------------------------------------------------------

\* the runs of text between whitespace that lex returns as Baseline
\* tokens: `x,` `y?:int` `y:int?` `y:` `int` `--output` `--output(-o)`
\* `--output(-o):` `--output:` `path` `...rest`
Words ==
  {<<"x", ",">>,
   <<"y", "?", ":", "i", "n", "t">>,
   <<"y", ":", "i", "n", "t", "?">>,
   <<"y", ":">>,
   <<"i", "n", "t">>,
   <<"-", "-", "o", "u", "t", "p", "u", "t">>,
   <<"-", "-", "o", "u", "t", "p", "u", "t", "(", "-", "o", ")">>,
   <<"-", "-", "o", "u", "t", "p", "u", "t", "(", "-", "o", ")", ":">>,
   <<"-", "-", "o", "u", "t", "p", "u", "t", ":">>,
   <<"p", "a", "t", "h">>,
   <<".", ".", ".", "r", "e", "s", "t">>}

\* what lex returns for the interior of the text
LexTokens == {Baseline(w) : w \in Words} \cup {CommentToken, PipeToken, EOLToken}

LexTokenSeqs == UNION {[1..n -> LexTokens] : n \in 0..MaxWords}

LexError == [kind |-> "lex", expected |-> "", at |-> 0]

BracketError == Mismatch("definition signature", 0)

\* the text handed to parse_signature: its first and last character, and
\* what lex makes of the characters between them
SignatureVecs ==
  [first : {"[", "x"}, last : {"]", "x"},
   lexed : LexTokenSeqs, error : {None, Some(LexError)}]

\* lex(&string, ...), which is not part of these sources
lex(signature_vec) == <<signature_vec.lexed, signature_vec.error>>

InitSignature ==
  /\ frames = ScopeNew
  /\ saved = <<>>
  /\ NoCommand
  /\ NoSeq
  /\ stages = <<>>
  /\ lock = 0
  /\ threads = <<>>
  /\ NoParse
  /\ NoAlias
  /\ \E sv \in SignatureVecs :
       sig = [pc |-> "brackets", signature_vec |-> sv, err |-> None,
              tokens |-> <<>>, i |-> 0, parameters |-> <<>>, flags |-> <<>>,
              rest |-> None, signature |-> None]

\* match (chars.next(), chars.next_back())
StripBrackets ==
  /\ sig.pc = "brackets"
  /\ sig' = [sig EXCEPT
       !.pc = "lex",
       !.err = IF sig.signature_vec.first = "[" /\ sig.signature_vec.last = "]"
               THEN sig.err
               ELSE Or(sig.err, Some(BracketError))]
  /\ UNCHANGED <<running, seq, frames, saved, stages, lock, threads, tokens, idx, res, alias>>

Lex ==
  /\ sig.pc = "lex"
  /\ sig' = [sig EXCEPT
       !.pc = "split_baseline",
       !.tokens = lex(sig.signature_vec)[1],
       !.err = Or(sig.err, lex(sig.signature_vec)[2])]
  /\ UNCHANGED <<running, seq, frames, saved, stages, lock, threads, tokens, idx, res, alias>>

SplitBaselineTokens ==
  /\ sig.pc = "split_baseline"
  /\ sig' = [sig EXCEPT
       !.pc = "split_shortflag",
       !.tokens = lex_split_baseline_tokens_on(sig.tokens, {",", ":", "?"})]
  /\ UNCHANGED <<running, seq, frames, saved, stages, lock, threads, tokens, idx, res, alias>>

SplitShortflagFromLongflag ==
  /\ sig.pc = "split_shortflag"
  /\ sig' = [sig EXCEPT
       !.pc = "items",
       !.tokens = lex_split_shortflag_from_longflag(sig.tokens)]
  /\ UNCHANGED <<running, seq, frames, saved, stages, lock, threads, tokens, idx, res, alias>>

\* the branch the loop `while i < tokens.len()` takes at tokens[i]
Branch(toks, i) ==
  IF toks[i + 1].contents = "EOL" THEN "eol"
  ELSE IF is_flag(toks[i + 1]) THEN "flag"
  ELSE IF is_rest(toks[i + 1]) THEN "rest"
  ELSE "parameter"

InLoop == sig.pc = "items" /\ sig.i < Len(sig.tokens)

SkipEol ==
  /\ InLoop
  /\ Branch(sig.tokens, sig.i) = "eol"
  /\ sig' = [sig EXCEPT !.i = sig.i + 1]
  /\ UNCHANGED <<running, seq, frames, saved, stages, lock, threads, tokens, idx, res, alias>>

FlagItem ==
  /\ InLoop
  /\ Branch(sig.tokens, sig.i) = "flag"
  /\ LET r == Parse(Flag, TokenTexts(sig.tokens), sig.i) IN
       sig' = [sig EXCEPT !.err = Or(sig.err, r.err), !.i = r.i,
                          !.flags = Append(sig.flags, r.value)]
  /\ UNCHANGED <<running, seq, frames, saved, stages, lock, threads, tokens, idx, res, alias>>

RestItem ==
  /\ InLoop
  /\ Branch(sig.tokens, sig.i) = "rest"
  /\ LET r == Parse(Rest, TokenTexts(sig.tokens), sig.i) IN
       sig' = [sig EXCEPT !.err = Or(sig.err, r.err), !.i = r.i,
                          !.rest = Some(r.value)]
  /\ UNCHANGED <<running, seq, frames, saved, stages, lock, threads, tokens, idx, res, alias>>

\* the parameters vector grows by one per iteration; the guard caps it
\* where an iteration does not advance i
ParameterItem ==
  /\ InLoop
  /\ Branch(sig.tokens, sig.i) = "parameter"
  /\ Len(sig.parameters) < MaxParameters
  /\ LET r == Parse(Parameter, TokenTexts(sig.tokens), sig.i) IN
       sig' = [sig EXCEPT !.err = Or(sig.err, r.err), !.i = r.i,
                          !.parameters = Append(sig.parameters, r.value)]
  /\ UNCHANGED <<running, seq, frames, saved, stages, lock, threads, tokens, idx, res, alias>>

\* the loop is left: to_signature and the return of (signature, err)
ToSignature ==
  /\ sig.pc = "items"
  /\ ~(sig.i < Len(sig.tokens))
  /\ sig' = [sig EXCEPT
       !.pc = "done",
       !.signature = Some(to_signature("def", sig.parameters, sig.flags, sig.rest))]
  /\ UNCHANGED <<running, seq, frames, saved, stages, lock, threads, tokens, idx, res, alias>>

NextSignature ==
  \/ StripBrackets
  \/ Lex
  \/ SplitBaselineTokens
  \/ SplitShortflagFromLongflag
  \/ SkipEol
  \/ FlagItem
  \/ RestItem
  \/ ParameterItem
  \/ ToSignature

SpecSignature == InitSignature /\ [][NextSignature]_vars

\* ------------------------------------------------------------------
\* SpecAlias: the alias command, and DeductionToSignature::get
\* ------------------------------------------------------------------

Shapes == {"Any", "Math", "Int", "String"}

\* VarShapeDeduction { deduction, .. }
VarShapeDeduction(shape) == [deduction |-> shape]

\* iter().find(|deduc| deduc.deduction == shape)
FindDeduction(deduc, shape) ==
  IF \E k \in 1..Len(deduc) : deduc[k].deduction = shape
  THEN Some(deduc[CHOOSE k \in 1..Len(deduc) :
                    deduc[k].deduction = shape
                      /\ \A j \in 1..(k - 1) : deduc[j].deduction # shape])
  ELSE None

\* variant: Math is looked for before Any
PickMathFirst(deducs) ==
  IF deducs = None THEN VarShapeDeduction("Any")
  ELSE IF FindDeduction(deducs[1], "Math") # None THEN FindDeduction(deducs[1], "Math")[1]
  ELSE IF FindDeduction(deducs[1], "Any") # None THEN FindDeduction(deducs[1], "Any")[1]
  ELSE deducs[1][1]

\* the closure mapped over the deductions: the deduction kept for one
\* variable
PickShape(deducs) ==
  IF deducs = None THEN VarShapeDeduction("Any")
  ELSE IF FindDeduction(deducs[1], "Any") # None THEN FindDeduction(deducs[1], "Any")[1]
  ELSE IF FindDeduction(deducs[1], "Math") # None THEN FindDeduction(deducs[1], "Math")[1]
  ELSE deducs[1][1]

\* PositionalType::mandatory(name, shape) with its description
MandatoryPositional(var_decl, shape) ==
  <<<<"Mandatory", var_decl.name, shape.deduction>>, "">>

\* variant: the positional of a variadic last variable is kept
DeductionToSignatureKeepsLast(cmd_name, deductions) ==
  LET picked == [k \in 1..Len(deductions) |->
                   <<deductions[k][1], PickShape(deductions[k][2])>>]
      positional == [k \in 1..Len(picked) |-> MandatoryPositional(picked[k][1], picked[k][2])]
  IN IF picked # <<>> /\ Last(picked)[1].is_var_arg
     THEN [name |-> cmd_name, positional |-> positional,
           rest_positional |-> Some(<<Last(picked)[2].deduction, Last(picked)[1].name>>),
           named |-> IndexMapNew]
     ELSE [name |-> cmd_name, positional |-> positional,
           rest_positional |-> None, named |-> IndexMapNew]

\* DeductionToSignature::get
DeductionToSignature(cmd_name, deductions) ==
  LET picked == [k \in 1..Len(deductions) |->
                   <<deductions[k][1], PickShape(deductions[k][2])>>]
      positional == [k \in 1..Len(picked) |-> MandatoryPositional(picked[k][1], picked[k][2])]
  IN IF picked # <<>> /\ Last(picked)[1].is_var_arg
     THEN [name |-> cmd_name, positional |-> Front(positional),
           rest_positional |-> Some(<<Last(picked)[2].deduction, Last(picked)[1].name>>),
           named |-> IndexMapNew]
     ELSE [name |-> cmd_name, positional |-> positional,
           rest_positional |-> None, named |-> IndexMapNew]

ends_with(s, suffix) ==
  Len(s) >= Len(suffix) /\ SubSeq(s, Len(s) - Len(suffix) + 1, Len(s)) = suffix

is_var_arg(var_name) == ends_with(var_name, <<".", ".", ".">>)

\* name.truncate(name.len() - 3)
var_arg_name(var_name) == SubSeq(var_name, 1, Len(var_name) - 3)

\* VarDeclaration { name, is_var_arg, span }
VarDeclaration(name, var_arg, span) == [name |-> name, is_var_arg |-> var_arg, span |-> span]

\* ShellError::labeled_error(msg, label, span)
LabeledError(label, span) == [error |-> label, span |-> span]

\* str::rfind: the offset of the last occurrence of the character
RFind(base, c) ==
  IF \E k \in 1..Len(base) : base[k] = c
  THEN Some((CHOOSE k \in 1..Len(base) :
               base[k] = c /\ \A j \in (k + 1)..Len(base) : base[j] # c) - 1)
  ELSE None

\* str::replace: every match, from the left, without overlap
RECURSIVE Replace(_, _, _)
Replace(str, from, to) ==
  IF Len(str) < Len(from) THEN str
  ELSE IF starts_with(str, from)
       THEN to \o Replace(SubSeq(str, Len(from) + 1, Len(str)), from, to)
       ELSE <<Head(str)>> \o Replace(Tail(str), from, to)

\* str::trim
RECURSIVE Trim(_)
Trim(str) ==
  IF str = <<>> THEN str
  ELSE IF Head(str) = " " THEN Trim(Tail(str))
  ELSE IF str[Len(str)] = " " THEN Trim(SubSeq(str, 1, Len(str) - 1))
  ELSE str

\* the four replacements that take the save flag out of a piece of text
RemoveSaveFlag(str) ==
  Replace(Replace(Replace(Replace(str,
    <<"-", "-", "s", "a", "v", "e">>, <<>>),
    <<"-", "s", "i">>, <<"-", "i">>),
    <<"-", "s", " ">>, <<>>),
    <<"-", "i", "s">>, <<"-", "i">>)

\* raw_input with the save flag removed left of `{` and right of `}`
ProcessedRawInput(raw_input) ==
  LET left_brace == UnwrapOr(Find(raw_input, "{"), 0)
      right_brace == UnwrapOr(RFind(raw_input, "}"), Len(raw_input))
  IN RemoveSaveFlag(SubSeq(raw_input, 1, left_brace))
       \o SubSeq(raw_input, left_brace + 1, right_brace)
       \o RemoveSaveFlag(SubSeq(raw_input, right_brace + 1, Len(raw_input)))

\* the startup table after the alias was added to it: the first entry
\* that starts with the text before `[` is replaced, else the alias is
\* pushed; a config without startup gets a table of this one alias
SaveToStartup(startup, raw_input) ==
  LET processed == ProcessedRawInput(raw_input)
      value == Trim(processed)
      alias_start == UnwrapOr(Find(processed, "["), 0)
      prefix == SubSeq(processed, 1, alias_start)
  IN IF startup = None THEN Some(<<value>>)
     ELSE LET commands == startup[1]
              found == {k \in 1..Len(commands) : starts_with(commands[k], prefix)}
          IN IF found # {}
             THEN Some([commands EXCEPT ![CHOOSE k \in found : \A j \in found : k <= j] = value])
             ELSE Some(Append(commands, value))

\* the text of the args table as it was typed: `a, b...`
RECURSIVE ListText(_)
ListText(list) ==
  IF list = <<>> THEN <<>>
  ELSE (IF Head(list).type = "String" THEN Head(list).chars ELSE <<"[", "]">>)
         \o (IF Len(list) > 1 THEN <<",", " ">> ELSE <<>>)
         \o ListText(Tail(list))

\* args.raw_input, the command line of `alias <name> [<list>] {<body>}`
\* with the save flag in one of three places
CommandLine(before, name, list, body, after) ==
  <<"a", "l", "i", "a", "s", " ">> \o before \o name \o <<" ", "[">> \o ListText(list) \o <<"]", " ", "{">>
    \o body \o <<"}">> \o after

SaveBefore == {<<>>, <<"-", "-", "s", "a", "v", "e", " ">>}
SaveAfter == {<<>>, <<" ", "-", "-", "s", "a", "v", "e">>, <<" ", "-", "s">>}

\* the command lines that define name with the block and carry a save
\* flag
RawInputs(name, list, block) ==
  {CommandLine(before, name, list, block, after) :
     before \in SaveBefore, after \in SaveAfter} \
  {CommandLine(<<>>, name, list, block, <<>>)}

\* the startup table of the config: none, empty, or `alias l [x] {cd}`
Startups == {None, Some(<<>>), Some(<<<<"a", "l", "i", "a", "s", " ", "l", " ", "[", "x", "]", " ", "{", "c", "d", "}">>>>)}

\* the values of the args table of an alias: the names a, b, a..., b...
\* as strings, and a value that is not a string
StringValue(chars) == [type |-> "String", chars |-> chars]
TableValue == [type |-> "Table", chars |-> <<>>]

ArgValues ==
  {StringValue(<<"a">>), StringValue(<<"b">>),
   StringValue(<<"a", ".", ".", ".">>), StringValue(<<"b", ".", ".", ".">>),
   TableValue}

\* args: Vec<Value>; the span of an item is its place in the list
ArgLists == UNION {[1..n -> ArgValues] : n \in 0..MaxArgs}

\* what infer_vars, which is not part of these sources, finds for one
\* variable: nothing, or the shapes of its uses in scan order
DeductionMenu ==
  {None,
   Some(<<VarShapeDeduction("Int")>>),
   Some(<<VarShapeDeduction("String"), VarShapeDeduction("Math")>>),
   Some(<<VarShapeDeduction("Int"), VarShapeDeduction("Any")>>)}

AliasNew(name, list, block, raw_input, save, startup) ==
  [pc |-> "save", name |-> name, list |-> list, block |-> block,
   raw_input |-> raw_input, save |-> save,
   startup |-> startup, idx |-> 0, processed_args |-> <<>>,
   inferred_shapes |-> <<>>, result |-> None]

InitAlias ==
  /\ frames = ScopeNew
  /\ saved = <<>>
  /\ NoCommand
  /\ NoSeq
  /\ stages = <<>>
  /\ lock = 0
  /\ threads = <<>>
  /\ NoParse
  /\ NoSignature
  /\ \E list \in ArgLists, save \in {None, Some(TRUE)}, startup \in Startups :
       \E raw_input \in IF save = None
                         THEN {CommandLine(<<>>, <<"l">>, list, <<"l", "s">>, <<>>)}
                         ELSE RawInputs(<<"l">>, list, <<"l", "s">>) :
         alias = AliasNew(<<"l">>, list, <<"l", "s">>, raw_input, save, startup)

\* variant: the index is compared, not the place
NotLastIndex(i, list) == i # Len(list)

\* (idx + 1) != list.len()
NotLast(i, list) == (i + 1) # Len(list)

\* return Err(..) out of alias
ReturnErr(error) == [alias EXCEPT !.pc = "done", !.result = Some(<<"Err", error>>)]

\* `if let Some(true) = save { .. }`: the config is read, the alias is
\* put into its startup table and the config is written (reading and
\* writing are taken to succeed)
SaveAlias ==
  /\ alias.pc = "save"
  /\ alias' = [alias EXCEPT
       !.pc = "args",
       !.startup = IF alias.save = Some(TRUE)
                   THEN SaveToStartup(alias.startup, alias.raw_input)
                   ELSE alias.startup]
  /\ UNCHANGED <<running, seq, frames, saved, stages, lock, threads, tokens, idx, res, sig>>

\* one iteration of `for (idx, item) in list.iter().enumerate()`
ProcessArg ==
  /\ alias.pc = "args"
  /\ alias.idx < Len(alias.list)
  /\ LET item == alias.list[alias.idx + 1]
         span == alias.idx + 1
         push(name, var_arg) ==
           [alias EXCEPT !.idx = alias.idx + 1,
              !.processed_args = Append(alias.processed_args,
                                        VarDeclaration(Text(<<"$">> \o name), var_arg, span))]
     IN alias' =
          IF item.type = "String"
          THEN IF is_var_arg(item.chars)
               THEN IF NotLast(alias.idx, alias.list)
                    THEN ReturnErr(LabeledError("Var-arg", span))
                    ELSE push(var_arg_name(item.chars), TRUE)
               ELSE push(item.chars, FALSE)
          ELSE ReturnErr(LabeledError("expected a string", span))
  /\ UNCHANGED <<running, seq, frames, saved, stages, lock, threads, tokens, idx, res, sig>>

\* VarSyntaxShapeDeductor::infer_vars(&processed_args, &block, &registry)?
\* gives every declared variable its deductions, or fails
InferVars ==
  /\ alias.pc = "args"
  /\ alias.idx = Len(alias.list)
  /\ \/ \E deducs \in [1..Len(alias.processed_args) -> DeductionMenu] :
          alias' = [alias EXCEPT
            !.pc = "inferred",
            !.inferred_shapes = [k \in 1..Len(alias.processed_args) |->
                                   <<alias.processed_args[k], deducs[k]>>]]
     \/ alias' = ReturnErr(LabeledError("infer_vars", 0))
  /\ UNCHANGED <<running, seq, frames, saved, stages, lock, threads, tokens, idx, res, sig>>

\* DeductionToSignature::get and the one action the command returns
ReturnAddAlias ==
  /\ alias.pc = "inferred"
  /\ alias' = [alias EXCEPT
       !.pc = "done",
       !.result = Some(<<"Ok", [action |-> "AddAlias",
                               signature |-> DeductionToSignature(Text(alias.name), alias.inferred_shapes),
                               block |-> alias.block]>>)]
  /\ UNCHANGED <<running, seq, frames, saved, stages, lock, threads, tokens, idx, res, sig>>

NextAlias ==
  \/ SaveAlias
  \/ ProcessArg
  \/ InferVars
  \/ ReturnAddAlias

SpecAlias == InitAlias /\ [][NextAlias]_vars

\* ------------------------------------------------------------------
\* SpecSave: alias --save commands run one after the other on one
\* config file
\* ------------------------------------------------------------------

\* the aliases that are saved: l and ll with the blocks {ls} and {cd}
SavedNames == {<<"l">>, <<"l", "l">>}
SavedBlocks == {<<"l", "s">>, <<"c", "d">>}

InitSave ==
  /\ frames = ScopeNew
  /\ saved = <<>>
  /\ NoCommand
  /\ NoSeq
  /\ stages = <<>>
  /\ lock = 0
  /\ threads = <<>>
  /\ NoParse
  /\ NoSignature
  /\ \E name \in SavedNames, block \in SavedBlocks, startup \in {None, Some(<<>>)} :
       \E raw_input \in RawInputs(name, <<StringValue(<<"a">>)>>, block) :
         alias = AliasNew(name, <<StringValue(<<"a">>)>>, block, raw_input, Some(TRUE), startup)

\* the command has returned and the next alias --save command line is
\* run: it reads the config the last one wrote
NextCommand ==
  /\ alias.pc = "done"
  /\ alias.startup # None => Len(alias.startup[1]) < MaxStartup
  /\ \E name \in SavedNames, block \in SavedBlocks :
       \E raw_input \in RawInputs(name, alias.list, block) :
         alias' = AliasNew(name, alias.list, block, raw_input, Some(TRUE), alias.startup)
  /\ UNCHANGED <<running, seq, frames, saved, stages, lock, threads, tokens, idx, res, sig>>

NextSave ==
  \/ SaveAlias
  \/ ProcessArg
  \/ InferVars
  \/ ReturnAddAlias
  \/ NextCommand

SpecSave == InitSave /\ [][NextSave]_vars

\* ------------------------------------------------------------------
\* SpecRunAlias: AliasCommand::run binds the arguments of a call of an
\* alias to the variables of its signature and runs the block
\* ------------------------------------------------------------------

\* the variables an alias declares, in order; the var-arg is $r
DeclaredVars == <<"$a", "$b", "$c", "$d">>

\* the signature alias builds for n variables and, when var_arg holds, a
\* var-arg declared after them
AliasSignatureOf(n, var_arg) ==
  DeductionToSignature("l",
    [k \in 1..n |-> <<VarDeclaration(DeclaredVars[k], FALSE, k), None>>]
      \o (IF var_arg THEN <<<<VarDeclaration("$r", TRUE, n + 1), None>>>> ELSE <<>>))

\* the values of the arguments of a call
ArgumentValues == {"p", "q"}

\* evaluated.args.positional: None, or the values of the arguments
Positionals ==
  {None} \cup {Some(args) : args \in UNION {[1..m -> ArgumentValues] : m \in 0..(MaxArgs + 1)}}

\* UntaggedValue::Table(values)
TableOf(values) == [table |-> values]

InitRunAlias ==
  /\ frames = ScopeNew
  /\ saved = <<>>
  /\ stages = <<>>
  /\ lock = 0
  /\ threads = <<>>
  /\ NoParse
  /\ NoSignature
  /\ NoAlias
  /\ NoSeq
  /\ \E n \in 0..MaxArgs, var_arg \in BOOLEAN, positional \in Positionals :
       running = [pc |-> "evaluate", sig |-> AliasSignatureOf(n, var_arg),
                  args |-> positional, positional |-> None, idx |-> 0,
                  vars |-> IndexMapNew, result |-> None]

\* call_info.evaluate(&registry).await?
EvaluateCall ==
  /\ running.pc = "evaluate"
  /\ \/ running' = [running EXCEPT
            !.pc = IF running.args = None THEN "block" ELSE "positional",
            !.positional = running.args]
     \/ running' = [running EXCEPT !.pc = "done", !.result = Some(<<"Err", "evaluate">>)]
  /\ UNCHANGED <<frames, saved, stages, lock, threads, tokens, idx, res, sig, alias, seq>>

\* one iteration of `for (idx, (pos_type, _)) in self.sig.positional`:
\* positional[idx] is out of bounds when the call has fewer arguments
BindPositional ==
  /\ running.pc = "positional"
  /\ running.idx < Len(running.sig.positional)
  /\ running' =
       IF running.idx >= Len(running.positional[1])
       THEN [running EXCEPT !.pc = "panic"]
       ELSE [running EXCEPT
               !.idx = running.idx + 1,
               !.vars = IndexMapInsert(running.vars,
                                       running.sig.positional[running.idx + 1][1][2],
                                       running.positional[1][running.idx + 1])]
  /\ UNCHANGED <<frames, saved, stages, lock, threads, tokens, idx, res, sig, alias, seq>>

\* var_arg_idx < positional.len()
RestBound(var_arg_idx, positional) == var_arg_idx < Len(positional)

\* `if let Some((_, desc)) = &self.sig.rest_positional { .. }`
BindRest ==
  /\ running.pc = "positional"
  /\ running.idx = Len(running.sig.positional)
  /\ LET positional == running.positional[1]
         var_arg_idx == Len(running.sig.positional)
     IN running' =
          IF running.sig.rest_positional # None /\ RestBound(var_arg_idx, positional)
          THEN [running EXCEPT
                  !.pc = "block",
                  !.vars = IndexMapInsert(running.vars, running.sig.rest_positional[1][2],
                             TableOf(SubSeq(positional, var_arg_idx + 1, Len(positional))))]
          ELSE [running EXCEPT !.pc = "block"]
  /\ UNCHANGED <<frames, saved, stages, lock, threads, tokens, idx, res, sig, alias, seq>>

\* run_block(&block, &mut context, input, &scope.it, &scope.vars, &scope.env)
RunBlock ==
  /\ running.pc = "block"
  /\ \E outcome \in {"Ok", "Err"} :
       running' = [running EXCEPT !.pc = "done", !.result = Some(<<outcome, "run_block">>)]
  /\ UNCHANGED <<frames, saved, stages, lock, threads, tokens, idx, res, sig, alias, seq>>

NextRunAlias ==
  \/ EvaluateCall
  \/ BindPositional
  \/ BindRest
  \/ RunBlock

SpecRunAlias == InitRunAlias /\ [][NextRunAlias]_vars

\* ------------------------------------------------------------------
\* SpecCommand: Command::run and the loops of run_helper,
\* FnFilterCommand::run, first and insert over the input stream
\* ------------------------------------------------------------------

\* an input value: whether it is a row, and what evaluating the
\* arguments with it as $it and running the command on it come to
InputValue(value, evaluate, run) == [value |-> value, evaluate |-> evaluate, run |-> run]

InputValues ==
  {InputValue("row", "Ok", "Ok"), InputValue("row", "Err", "Ok"),
   InputValue("row", "Ok", "Err"), InputValue("int", "Ok", "Ok")}

\* args.input with at most MaxItems values
InputStreams == UNION {[1..n -> InputValues] : n \in 0..MaxItems}

CommandKinds == {"WholeStream", "PerItem", "FnFilter", "first", "insert"}

\* what a command puts on its output for the input value at pos
ReturnValue(kind, pos) == [kind |-> kind, pos |-> pos]

\* variant: the error of a failed item is dropped
ItemOutputDropsError(item, pos) ==
  IF item.evaluate = "Ok" /\ item.run = "Ok" THEN <<ReturnValue("Value", pos)>> ELSE <<>>

\* the closure of run_helper: the stream the command returns for the
\* item, or a stream of the one error of evaluate or of run
ItemOutput(item, pos) ==
  IF item.evaluate = "Ok"
  THEN IF item.run = "Ok" THEN <<ReturnValue("Value", pos)>> ELSE <<ReturnValue("Err", pos)>>
  ELSE <<ReturnValue("Err", pos)>>

\* the closure of FnFilterCommand::run
FilterOutput(item, pos) ==
  IF item.evaluate = "Err" THEN <<ReturnValue("Err", pos)>>
  ELSE IF item.run = "Err" THEN <<ReturnValue("Err", pos)>>
  ELSE <<ReturnValue("Value", pos)>>

\* the body of the loop of insert
InsertOutput(item, pos) ==
  IF item.value = "row"
  THEN IF item.run = "Ok" THEN <<ReturnValue("Value", pos)>> ELSE <<ReturnValue("Err", pos)>>
  ELSE <<ReturnValue("Err", pos)>>

InitCommand ==
  /\ frames = ScopeNew
  /\ saved = <<>>
  /\ stages = <<>>
  /\ lock = 0
  /\ threads = <<>>
  /\ NoParse
  /\ NoSignature
  /\ NoAlias
  /\ NoSeq
  /\ \E command \in CommandKinds, help \in BOOLEAN, fails \in BOOLEAN, input \in InputStreams :
       \E rows \in IF command = "first" THEN {None, Some(0), Some(2)} ELSE {None} :
         running = [pc |-> "run", command |-> command, help |-> help, fails |-> fails,
                    input |-> input, pulled |-> 0, out |-> <<>>, ctrl_c |-> FALSE,
                    rows |-> rows, rows_desired |-> 0, values_vec_deque |-> <<>>]

\* Command::run: the help text, or the stream of the command; a whole
\* stream command whose run returns Err gives the stream of that error
RunCommand ==
  /\ running.pc = "run"
  /\ running' =
       IF running.help
       THEN [running EXCEPT !.pc = "done", !.out = <<ReturnValue("Help", 0)>>]
       ELSE IF running.command = "WholeStream"
       THEN [running EXCEPT !.pc = "done",
               !.out = <<ReturnValue(IF running.fails THEN "Err" ELSE "Value", 0)>>]
       ELSE IF running.command = "first"
       THEN IF running.fails
            THEN [running EXCEPT !.pc = "done", !.out = <<ReturnValue("Err", 0)>>]
            ELSE [running EXCEPT !.pc = "items",
                    !.rows_desired = UnwrapOr(running.rows, 1)]
       ELSE IF running.command = "insert" /\ running.fails
       THEN [running EXCEPT !.pc = "done", !.out = <<ReturnValue("Err", 0)>>]
       ELSE [running EXCEPT !.pc = "items"]
  /\ UNCHANGED <<frames, saved, stages, lock, threads, tokens, idx, res, sig, alias, seq>>

\* the next value of args.input goes through the closure of run_helper
RunHelperItem ==
  /\ running.pc = "items"
  /\ running.command = "PerItem"
  /\ running.pulled < Len(running.input)
  /\ running' = [running EXCEPT
       !.pulled = running.pulled + 1,
       !.out = running.out \o ItemOutput(running.input[running.pulled + 1], running.pulled + 1)]
  /\ UNCHANGED <<frames, saved, stages, lock, threads, tokens, idx, res, sig, alias, seq>>

\* the next value of input goes through the closure of
\* FnFilterCommand::run
FnFilterItem ==
  /\ running.pc = "items"
  /\ running.command = "FnFilter"
  /\ running.pulled < Len(running.input)
  /\ running' = [running EXCEPT
       !.pulled = running.pulled + 1,
       !.out = running.out \o FilterOutput(running.input[running.pulled + 1], running.pulled + 1)]
  /\ UNCHANGED <<frames, saved, stages, lock, threads, tokens, idx, res, sig, alias, seq>>

\* one iteration of `while let Some(input) = input.next().await` in
\* first, which returns the values it kept when it breaks
FirstItem ==
  /\ running.pc = "items"
  /\ running.command = "first"
  /\ running.pulled < Len(running.input)
  /\ running' =
       IF running.rows_desired > 0
       THEN [running EXCEPT
               !.pulled = running.pulled + 1,
               !.values_vec_deque = Append(running.values_vec_deque,
                                           ReturnValue("Value", running.pulled + 1)),
               !.rows_desired = running.rows_desired - 1]
       ELSE [running EXCEPT
               !.pulled = running.pulled + 1,
               !.pc = "done",
               !.out = running.values_vec_deque]
  /\ UNCHANGED <<frames, saved, stages, lock, threads, tokens, idx, res, sig, alias, seq>>

\* one iteration of `while let Some(value) = input.next().await` in
\* insert
InsertItem ==
  /\ running.pc = "items"
  /\ running.command = "insert"
  /\ running.pulled < Len(running.input)
  /\ running' = [running EXCEPT
       !.pulled = running.pulled + 1,
       !.out = running.out \o InsertOutput(running.input[running.pulled + 1], running.pulled + 1)]
  /\ UNCHANGED <<frames, saved, stages, lock, threads, tokens, idx, res, sig, alias, seq>>

\* the input stream returns None
InputEnds ==
  /\ running.pc = "items"
  /\ running.pulled = Len(running.input)
  /\ running' = [running EXCEPT
       !.pc = "done",
       !.out = IF running.command = "first" THEN running.values_vec_deque ELSE running.out]
  /\ UNCHANGED <<frames, saved, stages, lock, threads, tokens, idx, res, sig, alias, seq>>

\* the user interrupts: the shared flag ctrl_c is set
SetCtrlC ==
  /\ running.pc \in {"run", "items"}
  /\ ~running.ctrl_c
  /\ running' = [running EXCEPT !.ctrl_c = TRUE]
  /\ UNCHANGED <<frames, saved, stages, lock, threads, tokens, idx, res, sig, alias, seq>>

NextCommandRun ==
  \/ RunCommand
  \/ RunHelperItem
  \/ FnFilterItem
  \/ FirstItem
  \/ InsertItem
  \/ InputEnds
  \/ SetCtrlC

SpecCommand == InitCommand /\ [][NextCommandRun]_vars

\* ------------------------------------------------------------------
\* SpecSeq: run_seq on the rest arguments of seq, and the loop of
\* print_seq. The numbers are whole numbers, written without a point.
\* ------------------------------------------------------------------

\* a rest argument: the text of a number, a text that is no number, or
\* a value that is not a string
NumberText(n) == [kind |-> "number", n |-> n]
WordText == [kind |-> "word", n |-> 0]
NoString == [kind |-> "table", n |-> 0]

SeqValues == {NumberText(n) : n \in -MaxSeq..MaxSeq} \cup {WordText, NoString}

\* rest: Vec<Value> of at most three values
SeqRests == UNION {[1..k -> SeqValues] : k \in 0..3}

\* slice.len(), which is also slice.find('.').unwrap_or(len): the digits
\* and the sign
TextLen(text) == IF text.kind = "number" THEN (IF text.n < 0 THEN 2 ELSE 1) ELSE 1

\* parse_float
parse_float(text) == IF text.kind = "number" THEN <<"Ok", text.n>> ELSE <<"Err", "invalid floating point argument">>

done_printing(next, step, last) == IF step >= 0 THEN next > last ELSE next < last

InitSeq ==
  /\ frames = ScopeNew
  /\ saved = <<>>
  /\ stages = <<>>
  /\ lock = 0
  /\ threads = <<>>
  /\ NoParse
  /\ NoSignature
  /\ NoAlias
  /\ NoCommand
  /\ \E rest \in SeqRests, widths \in BOOLEAN :
       seq = [pc |-> "run", rest |-> rest, widths |-> widths, first |-> 1, step |-> 1,
              last |-> 1, padding |-> 0, i |-> 0, value |-> 1, ret_str |-> <<>>,
              result |-> None]

\* run_seq up to the call of print_seq: the values are mapped with
\* as_string().expect(..), first and step are parsed when they are
\* given, and last is free[free.len() - 1]
RunSeq ==
  /\ seq.pc = "run"
  /\ LET free == seq.rest
         n == Len(free)
         first == IF n > 1 THEN parse_float(free[1]) ELSE <<"Ok", 1>>
         step == IF n > 2 THEN parse_float(free[2]) ELSE <<"Ok", 1>>
         last == parse_float(free[n])
         padding == Max({IF n > 1 THEN TextLen(free[1]) ELSE 0,
                         IF n > 2 THEN TextLen(free[2]) ELSE 0,
                         TextLen(free[n])})
         error(e) == [seq EXCEPT !.pc = "done", !.result = Some(<<"Err", e>>)]
     IN seq' =
          IF \E k \in 1..n : free[k].kind = "table" THEN [seq EXCEPT !.pc = "panic"]
          ELSE IF first[1] = "Err" THEN error(first[2])
          ELSE IF step[1] = "Err" THEN error(step[2])
          ELSE IF n = 0 THEN [seq EXCEPT !.pc = "panic"]
          ELSE IF last[1] = "Err" THEN error(last[2])
          ELSE [seq EXCEPT !.pc = "print", !.first = first[2], !.step = step[2],
                           !.last = last[2], !.padding = padding,
                           !.i = 0, !.value = first[2]]
  /\ UNCHANGED <<frames, saved, stages, lock, threads, tokens, idx, res, sig, alias, running>>

\* one iteration of `while !done_printing(value, step, last)`
PrintSeqStep ==
  /\ seq.pc = "print"
  /\ ~done_printing(seq.value, seq.step, seq.last)
  /\ seq.i < MaxPrinted
  /\ LET before_dec == IF seq.value < 0 THEN 2 ELSE 1
         zeros == IF seq.widths /\ before_dec < seq.padding
                  THEN [k \in 1..(seq.padding - before_dec) |-> "0"] ELSE <<>>
         value == seq.first + (seq.i + 1) * seq.step
     IN seq' = [seq EXCEPT
          !.i = seq.i + 1,
          !.value = value,
          !.ret_str = seq.ret_str \o zeros \o <<seq.value>>
                        \o (IF ~done_printing(value, seq.step, seq.last)
                            THEN <<"separator">> ELSE <<>>)]
  /\ UNCHANGED <<frames, saved, stages, lock, threads, tokens, idx, res, sig, alias, running>>

\* the loop is left, the terminator is added and the string returned
PrintSeqReturn ==
  /\ seq.pc = "print"
  /\ done_printing(seq.value, seq.step, seq.last)
  /\ seq' = [seq EXCEPT
       !.pc = "done",
       !.ret_str = IF \/ (seq.first >= seq.last /\ seq.step < 0)
                      \/ (seq.first <= seq.last /\ seq.step > 0)
                   THEN Append(seq.ret_str, "terminator") ELSE seq.ret_str,
       !.result = Some(<<"Ok", "ret_str">>)]
  /\ UNCHANGED <<frames, saved, stages, lock, threads, tokens, idx, res, sig, alias, running>>

NextSeq ==
  \/ RunSeq
  \/ PrintSeqStep
  \/ PrintSeqReturn

SpecSeq == InitSeq /\ [][NextSeq]_vars

\* ------------------------------------------------------------------
\* SpecDeduction: DeductionToSignature::get on the deductions of one
\* variable
\* ------------------------------------------------------------------

\* Vec<VarShapeDeduction> of one to MaxDeductions shapes
DeductionSeqs ==
  UNION {[1..n -> {VarShapeDeduction(shape) : shape \in Shapes}] : n \in 1..MaxDeductions}

InitDeduction ==
  /\ frames = ScopeNew
  /\ saved = <<>>
  /\ NoCommand
  /\ NoSeq
  /\ stages = <<>>
  /\ lock = 0
  /\ threads = <<>>
  /\ NoParse
  /\ NoSignature
  /\ \E var_arg \in BOOLEAN, deducs \in {None} \cup {Some(d) : d \in DeductionSeqs} :
       alias = [AliasNew(<<"l">>,
                         <<StringValue(IF var_arg THEN <<"a", ".", ".", ".">> ELSE <<"a">>)>>,
                         <<"l", "s">>, <<>>, None, None)
                  EXCEPT !.pc = "inferred", !.idx = 1,
                         !.processed_args = <<VarDeclaration("$a", var_arg, 1)>>,
                         !.inferred_shapes = <<<<VarDeclaration("$a", var_arg, 1), deducs>>>>]

NextDeduction == ReturnAddAlias

SpecDeduction == InitDeduction /\ [][NextDeduction]_vars


\* ------------------------------------------------------------------
\* Properties of Scope
\* ------------------------------------------------------------------

Binders(fs, field, name) == {d \in 1..Len(fs) : ContainsKey(fs[d][field], name)}

\* the binding of the innermost frame that binds the name, None if none does
Innermost(fs, field, name) ==
  IF Binders(fs, field, name) = {} THEN None
  ELSE IndexMapGet(fs[Max(Binders(fs, field, name))][field], name)

\* C1: shadowing and restore. After add_var(x, V2) in an entered scope
\* get_var(x) is V2 whatever the outer frames bind, and after the matching
\* exit_scope every name resolves to what it resolved to when the scope
\* was entered.
C1_ShadowAndRestore ==
  /\ \A n \in VarNames, v \in Values :
       frames # <<>> => get_var(add_var(frames, n, v), n) = Some(v)
  /\ saved # <<>> =>
       \A n \in VarNames : get_var(exit_scope(frames), n) = Last(saved)[n]

C1_Witness ==
  /\ Len(frames) >= 2
  /\ saved # <<>>
  /\ Last(saved)["x"] = Some("V1")
  /\ get_var(frames, "x") = Some("V2")

\* C2: the frame stack always holds at least one frame (the global frame
\* is never popped).
C2_GlobalFrameKept == Len(frames) >= 1

\* C3: the merged views honour shadowing: get_vars()[n] is get_var(n) for
\* every bound name, and get_env_vars()[n] is the innermost env binding.
C3_MergedViewsShadow ==
  /\ \A n \in VarNames :
       get_var(frames, n) # None =>
         IndexMapGet(get_vars(frames), n) = get_var(frames, n)
  /\ \A n \in EnvNames :
       Innermost(frames, "env", n) # None =>
         IndexMapGet(get_env_vars(frames), n) = Innermost(frames, "env", n)

\* C4: get_var, get_command and get_alias return the binding of the
\* innermost frame that binds the name, and None exactly when no frame
\* binds it.
C4_InnermostFirst ==
  /\ \A n \in VarNames :
       /\ get_var(frames, n) = Innermost(frames, "vars", n)
       /\ (get_var(frames, n) = None) <=> (Binders(frames, "vars", n) = {})
  /\ \A n \in CommandNames :
       /\ get_command(frames, n) = Innermost(frames, "commands", n)
       /\ (get_command(frames, n) = None) <=> (Binders(frames, "commands", n) = {})
  /\ \A n \in AliasNames :
       /\ get_alias(frames, n) = Innermost(frames, "aliases", n)
       /\ (get_alias(frames, n) = None) <=> (Binders(frames, "aliases", n) = {})

C4_Witness ==
  /\ Len(frames) = 2
  /\ IndexMapGet(frames[1].commands, "a") = Some("C1")
  /\ IndexMapGet(frames[2].commands, "a") = Some("C2")
  /\ IndexMapGet(frames[1].vars, "x") = Some("V1")
  /\ frames[2].vars = <<>>
  /\ get_command(frames, "a") = Some("C2")
  /\ get_var(frames, "x") = Some("V1")
  /\ get_alias(frames, "l") = None

Fields == {"vars", "env", "commands", "aliases"}

\* `new` differs from `old` at most in the keys `keys` of map `field` of
\* the top frame
FrameEffect(old, new, field, keys) ==
  /\ Len(new) = Len(old)
  /\ \A d \in 1..(Len(old) - 1) : new[d] = old[d]
  /\ old # <<>> =>
       /\ \A f \in Fields \ {field} : Last(new)[f] = Last(old)[f]
       /\ \A k \in (KeySet(Last(old)[field]) \cup KeySet(Last(new)[field])) \ keys :
            IndexMapGet(Last(new)[field], k) = IndexMapGet(Last(old)[field], k)

\* C5: add_var, add_vars, add_env_var and add_env change only the named
\* keys of the targeted map of the topmost frame; other frames, the other
\* maps of the top frame and the number of frames are unchanged.
C5_AddTouchesTopOnly ==
  /\ \A n \in VarNames, v \in Values :
       FrameEffect(frames, add_var(frames, n, v), "vars", {n})
  /\ \A m \in VarMaps :
       FrameEffect(frames, add_vars(frames, m), "vars", KeySet(m))
  /\ \A n \in EnvNames, v \in EnvValues :
       FrameEffect(frames, add_env_var(frames, n, v), "env", {n})
  /\ \A m \in EnvMaps :
       FrameEffect(frames, add_env(frames, m), "env", KeySet(m))

C5_Witness ==
  /\ Len(frames) >= 2
  /\ frames[1].vars # <<>>
  /\ Last(frames).vars # <<>>
  /\ Last(frames).env # <<>>

BoundCommandNames(fs) == UNION {KeySet(fs[d].commands) : d \in 1..Len(fs)}

\* C8: get_command_names returns every command name bound in any frame
\* exactly once, in ascending order.
C8_NamesOnceSorted ==
  LET names == get_command_names(frames) IN
    /\ {names[j] : j \in 1..Len(names)} = BoundCommandNames(frames)
    /\ \A j \in 1..(Len(names) - 1) : Rank(names[j]) < Rank(names[j + 1])

\* the closure of stage s is not running: it has returned or was not called yet
BetweenItems(s) == stages[s].pc \in {"pull", "done"}

\* C6: push and pop are paired on every exit path of the per-item
\* evaluation of `keep until` and `all?`: whenever the closure has
\* returned (condition true, false, not a boolean, an error, or the fold's
\* early return on an earlier error) the frame depth is the one it was
\* called at.
C6_PushPopPaired ==
  \A s \in DOMAIN stages :
    (BetweenItems(s) /\ stages[s].depth0 # 0) => Len(frames) = stages[s].depth0

\* an all? fold that already holds an error has evaluated one more item
\* and returned early
C6_Witness ==
  /\ stages # <<>>
  /\ stages[1].cmd = "all"
  /\ stages[1].pc = "pull"
  /\ stages[1].acc = "Err"
  /\ stages[1].result = "OkTrue"
  /\ stages[1].depth0 = 2
  /\ Len(frames) = 2

\* C7: every Scope operation holds the frames lock from its first step to
\* its return, so it is atomic: when a call returns, frames is what the
\* call makes of the frames it locked, and its result is the one it has on
\* those frames, whatever the other threads were calling.
C7_OperationsAtomic ==
  \A t \in DOMAIN threads :
    /\ threads[t].pc # "idle" => lock = t
    /\ threads[t].pc = "unlock" =>
         /\ frames = Effect(threads[t].call, threads[t].pre)
         /\ threads[t].ret = Return(threads[t].call, threads[t].pre)

\* thread 2 returns from a lookup that saw the binding another call made
\* in an entered scope
C7_Witness ==
  /\ threads # <<>>
  /\ threads[2].pc = "unlock"
  /\ threads[2].call.op = "get_var"
  /\ threads[2].ret = Some("V2")
  /\ Len(frames) = 2
  /\ get_var(Front(frames), "x") = Some("V1")

\* ------------------------------------------------------------------
\* Properties of the parsers
\* ------------------------------------------------------------------
Ran == res.parser # "none"

Failed == Ran /\ res.r.err # None

\* C9: cursor monotonicity. Every combinator and every item parser
\* returns an index that is at least the index it was called with (and
\* never beyond the end of the slice).
C9_CursorMonotone == Ran => (res.r.i >= idx /\ res.r.i <= Len(tokens))

\* the parameter item `x : int` was consumed whole
C9_Witness ==
  /\ Ran
  /\ res.parser = "Parameter"
  /\ tokens = <<"x", ":", "int">>
  /\ idx = 0
  /\ res.r.i = 3
  /\ res.r.err = None

\* C10 as claimed: a parser that returns an error returns the index it
\* was called with.
C10_ErrorKeepsIndex == Failed => res.r.i = idx

\* C10 as the code has it: Expect on exhausted input returns its default
\* value and the index it was called with; a composed parser that fails
\* returns the index its parts reached, which is never smaller than the
\* index it was called with and may be larger: IfSuccessThen and
\* OptionalType fail only after Try matched and return the index after
\* Try, at which Then failed.
C10_ErrorIndexReached ==
  Failed =>
    /\ res.r.i >= idx
    /\ res.parser = "Expect" =>
         /\ res.r.i = idx
         /\ res.r.value = DefaultErrorValue(Prim(res.arg))
         /\ idx = Len(tokens) => res.r.err = Some(UnexpectedEof(res.arg, LastSpan(tokens)))
    /\ res.parser \in {"IfSuccessThen", "OptionalType"} =>
         /\ res.r.i = idx + 1
         /\ res.r.value # None

\* `: ,`: the type is missing after the `:`, which stays consumed
C10_Witness ==
  /\ Failed
  /\ res.parser = "OptionalType"
  /\ tokens = <<":", ",">>
  /\ idx = 0
  /\ res.r.i = 1
  /\ res.r.value = Some("Any")

\* C11: Maybe<P> never returns an error. It returns (None, i, no error)
\* exactly when P returns an error at i; otherwise it returns Some of
\* P's value together with the index P returned.
C11_MaybeSwallows ==
  (Ran /\ res.parser = "Maybe") =>
    LET p == Parse(res.arg, tokens, idx) IN
      /\ res.r.err = None
      /\ (res.r = ParseResult(None, idx, None)) <=> (p.err # None)
      /\ p.err = None => res.r = ParseResult(Some(p.value), p.i, None)

\* `: ,`: the type parser fails after the `:`, and Maybe returns to the
\* index it was called with
C11_Witness ==
  /\ Ran
  /\ res.parser = "Maybe"
  /\ res.arg = OptionalType
  /\ tokens = <<":", ",">>
  /\ idx = 0
  /\ Parse(OptionalType, tokens, idx).err # None
  /\ Parse(OptionalType, tokens, idx).i = 1
  /\ res.r = ParseResult(None, 0, None)


\* C27: IfSuccessThen<Try, Then> returns (None, i, no error) exactly
\* when Try fails at i. When Try succeeds, Then is run as Expect at the
\* index Try returned, the value is Some of both values, and an error is
\* reported exactly when Then fails, which it does when no token is left
\* after Try (unexpected end of input).
C27_ThenIsMandatory ==
  (Ran /\ res.parser = "IfSuccessThen") =>
    LET try == Parse(res.arg[1], tokens, idx)
        then == Parse(res.arg[2], tokens, try.i)
    IN /\ (res.r = ParseResult(None, idx, None)) <=> (try.err # None)
       /\ try.err = None =>
            /\ res.r.value # None
            /\ res.r.value[1][1] = try.value
            /\ IF try.i < Len(tokens)
               THEN /\ res.r.value[1][2] = then.value
                    /\ res.r.i = then.i
                    /\ res.r.err = then.err
               ELSE /\ res.r.value[1][2] = DefaultErrorValue(res.arg[2])
                    /\ res.r.i = try.i
                    /\ res.r.err = Some(UnexpectedEof(DisplayName(res.arg[2]), LastSpan(tokens)))

\* `x :`: the `:` is the last token and no type follows it
C27_Witness ==
  /\ Ran
  /\ res.parser = "IfSuccessThen"
  /\ res.arg = <<Prim("DoublePoint"), Prim("Shape")>>
  /\ tokens = <<"x", ":">>
  /\ idx = 1
  /\ res.r = ParseResult(Some(<<PrimValue("DoublePoint", ":"), PrimDefault("Shape")>>), 2,
                         Some(UnexpectedEof("Shape", 2)))

\* C28: AndThen<First, Second> runs Second at the index First returned
\* whether or not First returned an error; it reports the error of
\* First when First failed and else that of Second, and it returns the
\* index Second returned.
C28_AndThenRunsBoth ==
  (Ran /\ res.parser = "AndThen") =>
    LET first == Parse(res.arg[1], tokens, idx)
        second == Parse(res.arg[2], tokens, first.i)
    IN /\ res.r.value = <<first.value, second.value>>
       /\ res.r.i = second.i
       /\ res.r.err = IF first.err # None THEN first.err ELSE second.err

\* `: int` handed to RestName and then the optional type: the name is
\* missing, and the type is parsed all the same
C28_Witness ==
  /\ Ran
  /\ res.parser = "AndThen"
  /\ res.arg = <<Prim("RestName"), OptionalType>>
  /\ tokens = <<":", "int">>
  /\ idx = 0
  /\ res.r.i = 2
  /\ res.r.err = Some(Mismatch("RestName", 0))
  /\ res.r.value[2] = Some("Int")

\* ------------------------------------------------------------------
\* Properties of parse_signature
\* ------------------------------------------------------------------

\* C12: parse_signature terminates. Every iteration of the loop
\* `while i < tokens.len()` ends with a strictly larger cursor i,
\* whichever branch is taken and whether or not its parser reports an
\* error.
C12_LoopAdvances == [][InLoop => sig'.i > sig.i]_vars

Bracketed == sig.signature_vec.first = "[" /\ sig.signature_vec.last = "]"

\* the parser of the branch taken at tokens[i], run there
ItemResult ==
  LET b == Branch(sig.tokens, sig.i) IN
    Parse(IF b = "flag" THEN Flag ELSE IF b = "rest" THEN Rest ELSE Parameter,
          TokenTexts(sig.tokens), sig.i)

\* the index at which the iteration of the loop at tokens[i] ends
NextIndex(toks, i) ==
  LET b == Branch(toks, i) IN
    IF b = "eol" THEN i + 1
    ELSE Parse(IF b = "flag" THEN Flag ELSE IF b = "rest" THEN Rest ELSE Parameter,
               TokenTexts(toks), i).i

\* the loop, started at i, is left within n iterations. The branch and the
\* index an iteration ends with depend on i alone, so a loop over k tokens
\* that is not left within k iterations has repeated an index and is
\* never left.
RECURSIVE LoopEnds(_, _, _)
LoopEnds(toks, i, n) ==
  IF ~(i < Len(toks)) THEN TRUE
  ELSE IF n = 0 THEN FALSE
  ELSE LoopEnds(toks, NextIndex(toks, i), n - 1)

\* the order in which errors are kept: the bracket mismatch, else the
\* error of lex, else the error of the first item that failed; an error
\* once kept is never replaced; items are parsed and added after a failure
\* as before it, and the signature returned holds every one of them
C13_ErrorOrder ==
  /\ [](sig.pc \notin {"none", "brackets"} /\ ~Bracketed => sig.err = Some(BracketError))
  /\ [](sig.pc \notin {"none", "brackets", "lex"} /\ Bracketed
          /\ sig.signature_vec.error # None => sig.err = sig.signature_vec.error)
  /\ [](sig.pc \in {"split_baseline", "split_shortflag"} /\ Bracketed
          /\ sig.signature_vec.error = None => sig.err = None)
  /\ [][sig.pc # "none" /\ sig.err # None => sig'.err = sig.err]_vars
  /\ [][InLoop /\ sig.err = None /\ Branch(sig.tokens, sig.i) # "eol"
          => sig'.err = ItemResult.err]_vars
  /\ [][InLoop /\ Branch(sig.tokens, sig.i) = "parameter"
          => sig'.parameters = Append(sig.parameters, ItemResult.value)]_vars
  /\ [][InLoop /\ Branch(sig.tokens, sig.i) = "flag"
          => sig'.flags = Append(sig.flags, ItemResult.value)]_vars
  /\ [](sig.pc = "done" =>
          /\ sig.signature # None
          /\ sig.i = Len(sig.tokens)
          /\ Len(sig.signature[1].positional) = Len(sig.parameters)
          /\ \A k \in 1..Len(sig.parameters) :
               sig.signature[1].positional[k][1] = sig.parameters[k].pos_type)

\* C13: parse_signature always returns a Signature, and the error it
\* returns is the first one encountered: the missing-bracket mismatch,
\* then the error of lex, then the errors of the item parsers in token
\* order; a later error never replaces an earlier one, and an item that
\* failed does not keep later items from being parsed and added.
C13_ReturnsFirstError == [](sig.pc = "items" => LoopEnds(sig.tokens, sig.i, Len(sig.tokens))) /\ C13_ErrorOrder

\* the parameter items a token list declares when it is a well-formed list
\* of parameter items `name (?)? (: type)? (,)? (#comment)? (eol)?`, as
\* <<optional, name, shape>> in the order of declaration; Malformed when
\* it is not such a list
Malformed == <<"malformed">>

Skip(texts, k, what) == IF k <= Len(texts) /\ texts[k] = what THEN k + 1 ELSE k

ShapeOf(type) == IF type = "path" THEN "FilePath" ELSE "Int"

RECURSIVE Declared(_, _)
Declared(texts, k) ==
  IF k > Len(texts) THEN <<>>
  ELSE IF texts[k] \notin {"x", "y"} THEN Malformed
  ELSE LET k1 == Skip(texts, k + 1, "?")
           typed == k1 <= Len(texts) /\ texts[k1] = ":"
           k2 == IF typed THEN k1 + 2 ELSE k1
           k3 == Skip(texts, Skip(texts, Skip(texts, k2, ","), "#c"), "EOL")
       IN IF typed /\ (k1 + 1 > Len(texts) \/ texts[k1 + 1] \notin {"int", "path"})
          THEN Malformed
          ELSE LET others == Declared(texts, k3) IN
                 IF others = Malformed THEN Malformed
                 ELSE <<<<k1 > k + 1, texts[k],
                          IF typed THEN ShapeOf(texts[k1 + 1]) ELSE "Any">>>> \o others

Returned == sig.pc = "done"

\* C14: for a well-formed list of n parameter items the Signature has
\* exactly n positionals, in the order of declaration; each is Optional
\* iff its item carries the `?` modifier and Mandatory otherwise, with the
\* declared type as its shape, or Any when no type is written; there is
\* no flag, no rest parameter and no item error.
C14_PositionalsAsDeclared ==
  LET declared == Declared(TokenTexts(sig.tokens), 1) IN
    (Returned /\ declared # Malformed) =>
      LET signature == sig.signature[1] IN
        /\ Len(signature.positional) = Len(declared)
        /\ \A k \in 1..Len(declared) :
             signature.positional[k][1] =
               <<IF declared[k][1] THEN "Optional" ELSE "Mandatory",
                 declared[k][2], declared[k][3]>>
        /\ signature.named = IndexMapNew
        /\ signature.rest_positional = None
        /\ (Bracketed /\ sig.signature_vec.error = None) => sig.err = None

\* `[x, y?:int]`: x mandatory of shape Any, then y optional of shape Int
C14_Witness ==
  /\ Returned
  /\ Bracketed
  /\ TokenTexts(sig.tokens) = <<"x", ",", "y", "?", ":", "int">>
  /\ sig.signature[1].positional =
       <<<<<<"Mandatory", "x", "Any">>, "">>, <<<<"Optional", "y", "Int">>, "">>>>
  /\ sig.err = sig.signature_vec.error

\* C15: the parameter production is `name (: type)? (?)? item_end`. A
\* parameter written as a name, then `: type`, then `?` (as `y: int?`)
\* is consumed as one item and gives a single optional positional of that
\* type, with no error and no other positional.
C15_TypeThenModifier ==
  (Returned /\ TokenTexts(sig.tokens) = <<"y", ":", "int", "?">>) =>
    /\ sig.signature[1].positional = <<<<<<"Optional", "y", "Int">>, "">>>>
    /\ (Bracketed /\ sig.signature_vec.error = None) => sig.err = None

\* the text is one flag item: `--output`, then `(-o)` or not, then `:` and
\* a type or not
FlagWords ==
  {<<"-", "-", "o", "u", "t", "p", "u", "t">>,
   <<"-", "-", "o", "u", "t", "p", "u", "t", "(", "-", "o", ")">>,
   <<"-", "-", "o", "u", "t", "p", "u", "t", "(", "-", "o", ")", ":">>,
   <<"-", "-", "o", "u", "t", "p", "u", "t", ":">>}

TypeWords == {<<"i", "n", "t">>, <<"p", "a", "t", "h">>}

HasShorthand(word) == Find(word, "(") # None

HasType(word) == word[Len(word)] = ":"

IsFlagItem(lexed) ==
  /\ Len(lexed) >= 1
  /\ lexed[1].contents = "Baseline"
  /\ lexed[1].base \in FlagWords
  /\ IF HasType(lexed[1].base)
     THEN Len(lexed) = 2 /\ lexed[2].contents = "Baseline" /\ lexed[2].base \in TypeWords
     ELSE Len(lexed) = 1

\* C16: for a flag item `--name`, with `(-c)` directly after it or not and
\* with `: type` or not, the two splitting passes give separate tokens for
\* the long name, the shorthand group, the `:` and the type, and the flag
\* has the long name without its dashes, the shortform Some(c) iff the
\* group is there, and is a Switch without a type and an Optional flag of
\* the given shape with one.
C16_FlagSplitAndParsed ==
  LET lexed == sig.signature_vec.lexed IN
    (sig.pc \in {"items", "done"} /\ IsFlagItem(lexed)) =>
      LET word == lexed[1].base
          shortform == IF HasShorthand(word) THEN Some("o") ELSE None
      IN /\ TokenTexts(sig.tokens) =
              <<"--output">>
                \o (IF HasShorthand(word) THEN <<"(-o)">> ELSE <<>>)
                \o (IF HasType(word) THEN <<":", Text(lexed[2].base)>> ELSE <<>>)
         /\ Returned =>
              /\ Len(sig.flags) = 1
              /\ sig.flags[1].long_name = "output"
              /\ sig.flags[1].named_type =
                   IF HasType(word)
                   THEN <<"Optional", shortform, ShapeOf(Text(lexed[2].base))>>
                   ELSE <<"Switch", shortform>>
              /\ sig.signature[1].named =
                   <<<<"output", <<sig.flags[1].named_type, "">>>>>>
              /\ sig.signature[1].positional = <<>>
              /\ (Bracketed /\ sig.signature_vec.error = None) => sig.err = None

\* `--output(-o): path` gives output / Some('o') / FilePath
C16_Witness ==
  /\ Returned
  /\ IsFlagItem(sig.signature_vec.lexed)
  /\ TokenTexts(sig.signature_vec.lexed) = <<"--output(-o):", "path">>
  /\ TokenTexts(sig.tokens) = <<"--output", "(-o)", ":", "path">>
  /\ sig.flags = <<[long_name |-> "output",
                    named_type |-> <<"Optional", Some("o"), "FilePath">>,
                    desc |-> None]>>

\* C17: every Signature returned by parse_signature has pairwise distinct
\* positional parameter names and at most one rest parameter, whatever the
\* text declares. Stated for the texts that parse without any error,
\* where every positional has the name that was written.
C17_DistinctNames ==
  (Returned /\ sig.err = None) =>
    LET signature == sig.signature[1] IN
      /\ \A j, k \in 1..Len(signature.positional) :
           j # k => signature.positional[j][1][2] # signature.positional[k][1][2]
      /\ Len(signature.rest_positional) <= 1

\* ------------------------------------------------------------------
\* Properties of alias and of the shape deductions
\* ------------------------------------------------------------------
Min(S) == CHOOSE x \in S : \A y \in S : x <= y

\* the shape the precedence gives: Any if any deduction is Any, otherwise
\* Math if any is Math, otherwise the first; Any without deductions
Resolved(deducs) ==
  IF deducs = None THEN "Any"
  ELSE LET found == {deducs[1][k].deduction : k \in 1..Len(deducs[1])} IN
         IF "Any" \in found THEN "Any"
         ELSE IF "Math" \in found THEN "Math"
         ELSE deducs[1][1].deduction

AddAliasReturned ==
  alias.pc = "done" /\ alias.result # None /\ alias.result[1][1] = "Ok"

AliasSignature == alias.result[1][2].signature

\* C18: the shape of a variable is resolved from its recorded deductions
\* by a fixed precedence: Any if any deduction is Any, otherwise Math if
\* any is Math, otherwise the first one recorded; a variable without
\* deductions resolves to Any. The order of the deductions does not
\* matter for Any and Math.
C18_ShapePrecedence ==
  (AddAliasReturned /\ Len(alias.inferred_shapes) = 1) =>
    LET decl == alias.inferred_shapes[1][1]
        shape == Resolved(alias.inferred_shapes[1][2])
    IN IF decl.is_var_arg
       THEN /\ AliasSignature.rest_positional # None
            /\ AliasSignature.rest_positional[1][1] = shape
       ELSE /\ Len(AliasSignature.positional) = 1
            /\ AliasSignature.positional[1][1][3] = shape

\* String, Math and then Int, without Any: the math shape
C18_Witness ==
  /\ AddAliasReturned
  /\ alias.inferred_shapes[1][2] =
       Some(<<VarShapeDeduction("String"), VarShapeDeduction("Math"), VarShapeDeduction("Int")>>)
  /\ ~alias.inferred_shapes[1][1].is_var_arg
  /\ AliasSignature.positional = <<<<<<"Mandatory", "$a", "Math">>, "">>>>

\* the name alias gives the variable declared by list[k]
DeclaredName(list, k) ==
  Text(<<"$">> \o (IF is_var_arg(list[k].chars) THEN var_arg_name(list[k].chars)
                   ELSE list[k].chars))

\* C19: the signature has, in the order of declaration, one Mandatory
\* positional named `$<var>` with the resolved shape per declared variable
\* that is not variadic; a variadic last variable has no positional and is
\* the rest parameter, with its resolved shape; without one there is no
\* rest parameter; there is never more than one.
C19_SignatureFromDeductions ==
  AddAliasReturned =>
    LET list == alias.list
        deductions == alias.inferred_shapes
        n == Len(list)
        variadic == n > 0 /\ is_var_arg(list[n].chars)
        m == IF variadic THEN n - 1 ELSE n
    IN /\ Len(deductions) = n
       /\ Len(AliasSignature.positional) = m
       /\ \A k \in 1..m :
            AliasSignature.positional[k] =
              <<<<"Mandatory", DeclaredName(list, k), Resolved(deductions[k][2])>>, "">>
       /\ Len(AliasSignature.rest_positional) <= 1
       /\ IF variadic
          THEN /\ AliasSignature.rest_positional # None
               /\ AliasSignature.rest_positional[1][1] = Resolved(deductions[n][2])
          ELSE AliasSignature.rest_positional = None

\* `[a, b...]` with Int and Any found for b: one positional $a, rest Any
C19_Witness ==
  /\ AddAliasReturned
  /\ alias.list = <<StringValue(<<"a">>), StringValue(<<"b", ".", ".", ".">>)>>
  /\ alias.inferred_shapes[1][2] = Some(<<VarShapeDeduction("Int")>>)
  /\ alias.inferred_shapes[2][2] = Some(<<VarShapeDeduction("Int"), VarShapeDeduction("Any")>>)
  /\ AliasSignature.positional = <<<<<<"Mandatory", "$a", "Int">>, "">>>>
  /\ AliasSignature.rest_positional = Some(<<"Any", "$b">>)

\* the places of the names ending in `...` that are not the last element
EarlyVarArgs(list) ==
  {k \in 1..(Len(list) - 1) : list[k].type = "String" /\ is_var_arg(list[k].chars)}

AllStrings(list, n) == \A k \in 1..n : list[k].type = "String"

\* C20: when a parameter whose name ends in `...` is not the last element
\* of the parameter list (the first such one, after names only), alias
\* returns the labeled error with the span of that parameter, runs no
\* shape deduction and returns no AddAlias action; when the only var-arg
\* is the last element, this error is not raised.
C20_VarArgMustBeLast ==
  LET list == alias.list
      early == EarlyVarArgs(list)
  IN /\ (alias.pc # "none" /\ early # {} /\ AllStrings(list, Min(early))) =>
          /\ alias.pc \in {"save", "args", "done"}
          /\ alias.inferred_shapes = <<>>
          /\ alias.idx < Min(early)
          /\ alias.pc = "done" =>
               alias.result = Some(<<"Err", LabeledError("Var-arg", Min(early))>>)
     /\ (alias.pc = "done" /\ early = {}) =>
          (alias.result[1][1] = "Err" => alias.result[1][2].error # "Var-arg")

\* `[a..., b]` is rejected at a...
C20_Witness ==
  /\ alias.pc = "done"
  /\ alias.list = <<StringValue(<<"a", ".", ".", ".">>), StringValue(<<"b">>)>>
  /\ alias.result = Some(<<"Err", LabeledError("Var-arg", 1)>>)
  /\ alias.processed_args = <<>>

\* the parameter list is one that alias rejects: a value that is not a
\* string, or a var-arg in a place that is not the last
Rejected(list) ==
  \E k \in 1..Len(list) :
    \/ list[k].type # "String"
    \/ is_var_arg(list[k].chars) /\ k # Len(list)

\* C21: when alias is run with --save and its parameter list is
\* rejected, no step of the command changes the startup table of the
\* config, and the command returns an error and no AddAlias action.
C21_RejectedChangesNothing ==
  /\ [][(alias.save = Some(TRUE) /\ Rejected(alias.list))
          => alias'.startup = alias.startup]_vars
  /\ []((alias.pc = "done" /\ Rejected(alias.list)) => alias.result[1][1] = "Err")

\* the alias name a startup entry defines: the last word before `[`
EntryName(entry) ==
  LET head == Trim(SubSeq(entry, 1, UnwrapOr(Find(entry, "["), 0)))
      from == IF RFind(head, " ") = None THEN 0 ELSE RFind(head, " ")[1] + 1
  IN SubSeq(head, from + 1, Len(head))

\* the definition of the command that runs, with no save flag in it
SavedDefinition == CommandLine(<<>>, alias.name, alias.list, alias.block, <<>>)

Table(startup) == IF startup = None THEN <<>> ELSE startup[1]

OneEntryPerName(table) ==
  \A j, k \in 1..Len(table) : EntryName(table[j]) = EntryName(table[k]) => j = k

\* C22: the startup table never holds two entries of one alias name,
\* and every alias --save command leaves in it the definition without
\* the save flag text: in the place of the entry of that name when
\* there is one, else appended after the entries, the entries of other
\* names unchanged, wherever the flag was written.
C22_OneEntryPerName ==
  /\ [](alias.pc # "none" => OneEntryPerName(Table(alias.startup)))
  /\ [][(alias.pc = "save" /\ alias.save = Some(TRUE)) =>
          LET old == Table(alias.startup)
              same == {k \in 1..Len(old) : EntryName(old[k]) = alias.name}
          IN Table(alias'.startup) =
               IF same = {} THEN Append(old, SavedDefinition)
               ELSE [old EXCEPT ![Min(same)] = SavedDefinition]]_vars

\* ------------------------------------------------------------------
\* Properties of AliasCommand::run
\* ------------------------------------------------------------------

\* C23: when the block of an alias with n positional parameters and a
\* var-arg runs on a call with m >= n arguments, parameter k is bound to
\* argument k and the var-arg variable is bound to one table of the
\* arguments after the n-th, in their order, empty when m = n.
C23_VarArgCollectsRest ==
  LET n == Len(running.sig.positional)
      args == IF running.args = None THEN <<>> ELSE running.args[1]
  IN (running.pc = "block" /\ running.sig.rest_positional # None /\ Len(args) >= n) =>
       /\ \A k \in 1..n :
            IndexMapGet(running.vars, running.sig.positional[k][1][2]) = Some(args[k])
       /\ IndexMapGet(running.vars, running.sig.rest_positional[1][2])
            = Some(TableOf(SubSeq(args, n + 1, Len(args))))

\* ------------------------------------------------------------------
\* Properties of Command::run and of the loops over the input
\* ------------------------------------------------------------------

\* evaluating the arguments or running the command fails on the item
ItemFails(item) == item.evaluate = "Err" \/ item.run = "Err"

\* the places of the output that come from the input value at pos
OutputOf(out, pos) == {j \in 1..Len(out) : out[j].pos = pos}

\* C24: a whole stream command whose run returns Err gives a stream of
\* that one error and nothing else; in a per-item command every input
\* item on which argument evaluation or run fails gives exactly one
\* error value, at the place of that item, and the items after it are
\* still processed.
C24_OneErrorPerFailure ==
  (running.pc = "done" /\ ~running.help) =>
    /\ (running.command \in {"WholeStream", "first"} /\ running.fails)
         => running.out = <<ReturnValue("Err", 0)>>
    /\ running.command \in {"PerItem", "FnFilter"} =>
         /\ running.pulled = Len(running.input)
         /\ \A j, k \in 1..Len(running.out) : j < k => running.out[j].pos < running.out[k].pos
         /\ \A pos \in 1..Len(running.input) :
              /\ Cardinality(OutputOf(running.out, pos)) = 1
              /\ \A j \in OutputOf(running.out, pos) :
                   running.out[j].kind =
                     IF ItemFails(running.input[pos]) THEN "Err" ELSE "Value"

\* a per-item command has gone through an item that fails in run, one
\* that fails in evaluate and a good one after them
C24_Witness ==
  /\ running.pc = "done"
  /\ running.command = "PerItem"
  /\ running.input = <<InputValue("row", "Ok", "Err"), InputValue("row", "Err", "Ok"),
                       InputValue("row", "Ok", "Ok")>>
  /\ running.out = <<ReturnValue("Err", 1), ReturnValue("Err", 2), ReturnValue("Value", 3)>>

\* C25: once ctrl_c is set, the loop of a command over its input pulls
\* no further value from its upstream at the next iteration and ends
\* its output.
C25_StopsOnCtrlC ==
  [][(running.pc = "items" /\ running.ctrl_c) =>
       (running'.pulled = running.pulled /\ running'.pc = "done")]_vars

\* ------------------------------------------------------------------
\* Properties of the stages that evaluate a condition per item
\* ------------------------------------------------------------------

\* the condition of the stage is true for the item: what its evaluation
\* gives in a new frame with the captured variables and the item bound
ConditionTrue(st, item) ==
  LET captured == add_vars(enter_scope(frames), st.captured)
      bound == IF BindsItem(st) THEN add_var(captured, ArgName(st), item) ELSE captured
  IN evaluate_baseline_expr(bound, ArgName(st)) = "OkTrue"

\* C26: keep until outputs, in input order, exactly the input items
\* before the first item for which the condition is true; that item and
\* the later ones are dropped and the later ones are not evaluated; an
\* item whose evaluation is an error does not match and is kept.
C26_KeepUntilPrefix ==
  \A s \in DOMAIN stages :
    LET st == stages[s]
        n == Len(st.out)
    IN st.cmd = "keep until" =>
         /\ n <= Len(st.input0)
         /\ st.out = SubSeq(st.input0, 1, n)
         /\ st.pc = "done" =>
              /\ \A k \in 1..n : ~ConditionTrue(st, st.input0[k])
              /\ IF n < Len(st.input0)
                 THEN /\ ConditionTrue(st, st.input0[n + 1])
                      /\ st.input = SubSeq(st.input0, n + 2, Len(st.input0))
                 ELSE st.input = <<>>

\* of E, T, F only E is kept; F was not pulled
C26_Witness ==
  /\ Len(stages) = 1
  /\ stages[1].cmd = "keep until"
  /\ stages[1].hasParam
  /\ stages[1].pc = "done"
  /\ stages[1].input0 = <<"E", "T", "F">>
  /\ stages[1].out = <<"E">>
  /\ stages[1].input = <<"F">>

\* what the condition gives for the item alone
ResultOf(item) ==
  IF item = "T" THEN "OkTrue"
  ELSE IF item = "F" THEN "OkFalse"
  ELSE IF item = "N" THEN "OkOther"
  ELSE "Err"

\* C29: when the steps of two stages that share one Scope interleave,
\* the evaluation of each stage gives the result of the item that stage
\* has bound, and once both stages are done the frames are as many as
\* at the start.
C29_StagesIsolated ==
  /\ \A s \in DOMAIN stages :
       stages[s].pc \in {"exit", "decide"} => stages[s].result = ResultOf(stages[s].item)
  /\ (stages # <<>> /\ \A s \in DOMAIN stages : stages[s].pc = "done")
       => Len(frames) = Len(ScopeNew)

\* ------------------------------------------------------------------
\* Properties of run_seq and print_seq
\* ------------------------------------------------------------------

\* the loop of print_seq is left within n more iterations
RECURSIVE LoopLeft(_, _, _, _, _)
LoopLeft(first, step, last, i, n) ==
  \/ done_printing(first + i * step, step, last)
  \/ n > 0 /\ LoopLeft(first, step, last, i + 1, n - 1)

\* C30: the loop of print_seq is left after finitely many iterations
\* for every first, step and last, and run_seq returns a result or an
\* error for every list of arguments, the empty one included.
C30_SeqTerminates ==
  /\ seq.pc = "print" => LoopLeft(seq.first, seq.step, seq.last, seq.i, MaxPrinted)
  /\ seq.pc # "panic"

====
